---------------------------- MODULE Spec2Model ----------------------------
(***************************************************************************)
(* kube-janitor: the lifecycle decision engine (handleResource, handleTTL, *)
(* handleRules, handleExpiry), Rule.Matches, ParseTTL and the worker-pool  *)
(* dispatcher of CleanUp (cleanupNamespaces, cleanupResourceType,          *)
(* processResourcesInParallel).                                            *)
(*                                                                         *)
(* Strings the code inspects character by character (kinds, plural names,  *)
(* TTL values) are sequences of one-character strings.  Instants and       *)
(* durations are whole seconds, the finest unit a TTL can name.            *)
(***************************************************************************)
EXTENDS Integers, Sequences, FiniteSets, TLC

(***************************************************************************)
(* Strings                                                                 *)
(***************************************************************************)
UpperToLower ==
    [c \in {"C", "E", "N", "P", "S", "U", "V"} |->
        CASE c = "C" -> "c" [] c = "E" -> "e" [] c = "N" -> "n" [] c = "P" -> "p"
          [] c = "S" -> "s" [] c = "U" -> "u" [] c = "V" -> "v"]

\* strings.ToLower
ToLower(str) ==
    [i \in 1..Len(str) |->
        IF str[i] \in DOMAIN UpperToLower THEN UpperToLower[str[i]] ELSE str[i]]

stringInSlice(str, slice) == \E i \in 1..Len(slice) : slice[i] = str

KindPod       == <<"P", "o", "d">>
KindService   == <<"S", "e", "r", "v", "i", "c", "e">>
KindNamespace == <<"N", "a", "m", "e", "s", "p", "a", "c", "e">>
KindUnknown   == <<"U", "n", "k", "n", "o", "w", "n">>
KindNode      == <<"N", "o", "d", "e">>
KindPVC ==
    <<"P", "e", "r", "s", "i", "s", "t", "e", "n", "t",
      "V", "o", "l", "u", "m", "e", "C", "l", "a", "i", "m">>

pods       == <<"p", "o", "d", "s">>
services   == <<"s", "e", "r", "v", "i", "c", "e", "s">>
namespaces == <<"n", "a", "m", "e", "s", "p", "a", "c", "e", "s">>
nodes      == <<"n", "o", "d", "e", "s">>
persistentvolumeclaim ==
    <<"p", "e", "r", "s", "i", "s", "t", "e", "n", "t",
      "v", "o", "l", "u", "m", "e", "c", "l", "a", "i", "m">>
all        == <<"a", "l", "l">>
star       == <<"*">>

(***************************************************************************)
(* Time rules (helper.go)                                                  *)
(***************************************************************************)
TTLUnlimited == <<"f", "o", "r", "e", "v", "e", "r">>

Digits == {"0", "1", "2", "3", "4", "5", "6", "7", "8", "9"}

DigitVal ==
    [c \in Digits |->
        CASE c = "0" -> 0 [] c = "1" -> 1 [] c = "2" -> 2 [] c = "3" -> 3
          [] c = "4" -> 4 [] c = "5" -> 5 [] c = "6" -> 6 [] c = "7" -> 7
          [] c = "8" -> 8 [] c = "9" -> 9]

\* the TimeUnit table, in seconds
TimeUnit == [s |-> 1, m |-> 60, h |-> 3600, d |-> 86400, w |-> 604800]

RECURSIVE Atoi(_)
\* strconv.Atoi on a string of decimal digits
Atoi(str) ==
    IF Len(str) = 0 THEN 0
    ELSE 10 * Atoi(SubSeq(str, 1, Len(str) - 1)) + DigitVal[str[Len(str)]]

\* ttlPattern = ^(\d+)([smhdw])$
ttlPatternMatches(ttl) ==
    /\ Len(ttl) >= 2
    /\ \A i \in 1..(Len(ttl) - 1) : ttl[i] \in Digits
    /\ ttl[Len(ttl)] \in DOMAIN TimeUnit

\* ParseTTL with the pattern ^(\d*)([smhdw])$
ParseTTL_emptyNumber(ttl) ==
    IF ttl = TTLUnlimited THEN [err |-> FALSE, d |-> -1]
    ELSE IF ~(/\ Len(ttl) >= 1
              /\ \A i \in 1..(Len(ttl) - 1) : ttl[i] \in Digits
              /\ ttl[Len(ttl)] \in DOMAIN TimeUnit)
    THEN [err |-> TRUE, d |-> 0]
    ELSE [err |-> FALSE,
          d   |-> Atoi(SubSeq(ttl, 1, Len(ttl) - 1)) * TimeUnit[ttl[Len(ttl)]]]

\* ParseTTL: [err, d]; the unlimited TTL is the negative sentinel -1
ParseTTL(ttl) ==
    IF ttl = TTLUnlimited THEN [err |-> FALSE, d |-> -1]
    ELSE IF ~ttlPatternMatches(ttl) THEN [err |-> TRUE, d |-> 0]
    ELSE [err |-> FALSE,
          d   |-> Atoi(SubSeq(ttl, 1, Len(ttl) - 1)) * TimeUnit[ttl[Len(ttl)]]]

(***************************************************************************)
(* ParseTTL at the width of time.Duration: an int64 count of nanoseconds,  *)
(* held as its eight bytes in two's complement, lowest first.  Products    *)
(* wrap around as Go's do.                                                 *)
(***************************************************************************)
RECURSIVE ToBytes(_, _)
\* the lowest n bytes of a natural number
ToBytes(v, n) ==
    IF n = 0 THEN <<>> ELSE <<v % 256>> \o ToBytes(v \div 256, n - 1)

RECURSIVE ColumnSum(_, _, _, _)
\* the sum of a[i] * b[k + 1 - i] for i from i0 to k, within the bytes there are
ColumnSum(a, b, k, i0) ==
    IF i0 > k THEN 0
    ELSE (IF i0 <= Len(a) /\ k + 1 - i0 <= Len(b) THEN a[i0] * b[k + 1 - i0] ELSE 0)
            + ColumnSum(a, b, k, i0 + 1)

RECURSIVE MulFrom(_, _, _, _, _)
\* the bytes k..width of a * b, carry coming in
MulFrom(a, b, k, carry, width) ==
    IF k > width THEN <<>>
    ELSE LET t == ColumnSum(a, b, k, 1) + carry
         IN <<t % 256>> \o MulFrom(a, b, k + 1, t \div 256, width)

\* int64 multiplication: the product modulo 2^64
Mul64(a, b) == MulFrom(a, b, 1, 0, 8)

\* an int64 is negative
Negative64(x) == x[8] >= 128

\* time.Duration(-1)
MinusOne64 == [i \in 1..8 |-> 255]

\* time.Second in nanoseconds
Second64 == ToBytes(1000000000, 8)

\* the TimeUnit table as time.Duration values
TimeUnit64 ==
    [s |-> Second64,
     m |-> Mul64(ToBytes(60, 8), Second64),
     h |-> Mul64(ToBytes(3600, 8), Second64),
     d |-> Mul64(ToBytes(24, 8), Mul64(ToBytes(3600, 8), Second64)),
     w |-> Mul64(ToBytes(7 * 24, 8), Mul64(ToBytes(3600, 8), Second64))]

\* ParseTTL: [err, d], d the time.Duration it returns
ParseTTL64(ttl) ==
    IF ttl = TTLUnlimited THEN [err |-> FALSE, d |-> MinusOne64]
    ELSE IF ~ttlPatternMatches(ttl) THEN [err |-> TRUE, d |-> ToBytes(0, 8)]
    ELSE [err |-> FALSE,
          d   |-> Mul64(ToBytes(Atoi(SubSeq(ttl, 1, Len(ttl) - 1)), 8),
                        TimeUnit64[ttl[Len(ttl)]])]

(***************************************************************************)
(* Rule set (rules.go)                                                     *)
(*                                                                         *)
(* A rule is [Resources, JMESPath, TTL].  The JMESPath library is outside  *)
(* the repository: an object carries, for every expression of the rule     *)
(* file, the value compiledExpr.Search yields on it, as a tagged value     *)
(* [t, n]: t the dynamic type, n the truth value (bool) or the length      *)
(* (string, list, map).                                                    *)
(***************************************************************************)
SearchResults ==
    {[t |-> "bool", n |-> 1], [t |-> "bool", n |-> 0],
     [t |-> "string", n |-> 1], [t |-> "string", n |-> 0],
     [t |-> "list", n |-> 1], [t |-> "list", n |-> 0],
     [t |-> "map", n |-> 1], [t |-> "map", n |-> 0],
     [t |-> "number", n |-> 1], [t |-> "null", n |-> 0],
     [t |-> "error", n |-> 0]}

\* the expressions that read a field of "_context"
ContextField ==
    [x \in {"_context.pvc_is_not_mounted", "_context.pvc_is_not_referenced"} |->
        IF x = "_context.pvc_is_not_mounted" THEN "pvc_is_not_mounted"
        ELSE "pvc_is_not_referenced"]

\* the context without any fact: make(map[string]interface{}); a context is
\* the set of its <<key, value>> pairs
NoContext == {}

\* r.compiledExpr.Search(data): data is the resource map plus "_context"; a field
\* of the context is its value, or null when the context does not hold it
Search(expr, data) ==
    IF expr \in DOMAIN ContextField
    THEN IF \E p \in data.context : p[1] = ContextField[expr]
         THEN LET p == CHOOSE q \in data.context : q[1] = ContextField[expr]
              IN [t |-> "bool", n |-> IF p[2] THEN 1 ELSE 0]
         ELSE [t |-> "null", n |-> 0]
    ELSE data.search[expr]

\* the switch with a case for numbers: non-zero is true
Truthy_numbers(result) ==
    CASE result.t = "bool" -> result.n = 1
      [] result.t = "string" -> result.n > 0
      [] result.t = "list" -> result.n > 0
      [] result.t = "map" -> result.n > 0
      [] result.t = "number" -> result.n # 0
      [] OTHER -> FALSE

\* the switch on the dynamic type of the JMESPath result
Truthy(result) ==
    CASE result.t = "bool" -> result.n = 1
      [] result.t = "string" -> result.n > 0
      [] result.t = "list" -> result.n > 0
      [] result.t = "map" -> result.n > 0
      [] OTHER -> FALSE

\* the resource-type gate of Rule.Matches: fmt.Sprintf("%ss", kind)
TypeGate(rule, kind) ==
    \E i \in 1..Len(rule.Resources) :
        rule.Resources[i] = star \/ rule.Resources[i] = kind \o <<"s">>

\* Rule.Matches(resource, context); resource.hasKind: resource["kind"] is a string
Matches(rule, resource, context) ==
    IF ~resource.hasKind THEN FALSE
    ELSE IF ~TypeGate(rule, resource.kind) THEN FALSE
    ELSE LET data == [search |-> resource.search, context |-> context]
             result == Search(rule.JMESPath, data)
         IN IF result.t = "error" THEN FALSE ELSE Truthy(result)

\* Matches writing "_context" into the map it was given
AfterMatches_inPlace(rule, resource, context) ==
    IF ~resource.hasKind THEN resource
    ELSE IF ~TypeGate(rule, resource.kind) THEN resource
    ELSE ("_context" :> context) @@ resource

\* the resource map after Rule.Matches returned: the entries are copied into a
\* new map, data, and "_context" is stored there
AfterMatches(rule, resource, context) == resource

(***************************************************************************)
(* Resources                                                               *)
(*                                                                         *)
(* A resource is [kind, typed, hasKind, namespace, name, created, ann,     *)
(* search].  typed: the object is a *corev1.Namespace of the typed client  *)
(* (namespace pass), otherwise an *unstructured.Unstructured.  hasKind:    *)
(* the map objectToMap yields holds a string under "kind".  ann is the     *)
(* annotation map: nil, or the set of its keys with the values of the      *)
(* keys the code reads.  A timestamp value is [fmt, t]: the layout the     *)
(* string is written in and the instant it denotes.                        *)
(***************************************************************************)
TTLAnnotation      == "janitor/ttl"
ExpiryAnnotation   == "janitor/expires"
NotifiedAnnotation == "janitor/notified"

NoTime == [fmt |-> "invalid", t |-> 0]

\* the zero value of time.Time (January 1, year 1, UTC), an instant before
\* every object of the model was created
ZeroTime == 0 - 1

\* time.Parse(time.RFC3339, value)
ParseRFC3339(value) == [err |-> value.fmt # "rfc3339", t |-> value.t]

\* the layouts ParseExpiry tries, in order
dateTimeFormats == <<"rfc3339", "datetime", "date">>

\* ParseExpiry: the first layout the value is written in wins
ParseExpiry(value) ==
    [err |-> \A i \in 1..Len(dateTimeFormats) : dateTimeFormats[i] # value.fmt,
     t |-> value.t]

\* the kind a type assertion to *unstructured.Unstructured yields
KindOf(res) == IF res.typed THEN KindUnknown ELSE res.kind

HasAnnotation(res, key) == ~res.ann.nil /\ key \in res.ann.keys

\* wasNotified
wasNotified(res) == HasAnnotation(res, NotifiedAnnotation)

\* objectToMap: u.Object, or the JSON form of a typed object
objectToMap(res) == [hasKind |-> res.hasKind, kind |-> res.kind, search |-> res.search]

\* counter keys
ResourcesProcessed == <<"resources-processed">>
DeletedKey(kind) == ToLower(kind) \o <<"s">> \o <<"-deleted">>

(***************************************************************************)
(* Side effects of one decision: the calls made, in order.  api: the call  *)
(* reached the external client (FALSE for the dry-run log line); ok: it    *)
(* returned nil.  A decision result is [err, blocked, trace, inc, res,     *)
(* evaluated, applied]: inc the counter keys incremented, res the resource *)
(* afterwards, evaluated the rules Matches was called on, applied the      *)
(* rules whose TTL was parsed.  blocked: the goroutine is parked in        *)
(* counterMutex.Lock() and never returns.  hooked: the configured resource *)
(* context hook was called with j.cache.                                   *)
(***************************************************************************)
Ret(res) ==
    [err |-> FALSE, blocked |-> FALSE, trace |-> <<>>, inc |-> <<>>,
     res |-> res, evaluated |-> <<>>, applied |-> <<>>, hooked |-> FALSE]

\* createEvent
createEvent(cfg, branch, reason, ok) ==
    [call |-> "createEvent", branch |-> branch, reason |-> reason,
     api |-> ~cfg.DryRun, ok |-> cfg.DryRun \/ ok]

\* deleteResource: the collection addressed is lower-cased kind + "s"
deleteResource(cfg, res, branch, ok) ==
    [call |-> "deleteResource", branch |-> branch,
     reason |-> ToLower(KindOf(res)) \o <<"s">>,
     api |-> ~cfg.DryRun, ok |-> cfg.DryRun \/ ok]

\* sendDeleteNotification
sendDeleteNotification(cfg, res, branch, evOK) ==
    IF cfg.DryRun THEN Ret(res)
    ELSE IF wasNotified(res) THEN Ret(res)
    ELSE LET ev == createEvent(cfg, branch, "DeleteNotification", evOK)
         IN IF ~ev.ok
            THEN [Ret(res) EXCEPT !.err = TRUE, !.trace = <<ev>>]
            ELSE [Ret(res) EXCEPT
                    !.trace = <<ev, [call |-> "webhook", branch |-> branch,
                                     reason |-> "DeleteNotification",
                                     api |-> TRUE, ok |-> TRUE]>>,
                    !.res = [res EXCEPT !.ann.nil = FALSE,
                                        !.ann.keys = (IF res.ann.nil THEN {} ELSE @)
                                                       \cup {NotifiedAnnotation}]]

\* deployment time: the configured annotation when present and parseable; a
\* deploymentTime still at the zero time.Time (IsZero) is replaced by the
\* creation timestamp
deploymentTime(cfg, res) ==
    LET t == IF /\ cfg.DeploymentTimeAnnotation # ""
                /\ HasAnnotation(res, cfg.DeploymentTimeAnnotation)
                /\ ~ParseRFC3339(res.ann.deploy).err
             THEN ParseRFC3339(res.ann.deploy).t
             ELSE ZeroTime
    IN IF t = ZeroTime THEN res.created ELSE t

\* the expired arm going on to the delete when the event could not be created
expire_ignoreEvent(cfg, res, branch, reason, api, locks, held) ==
    LET ev  == createEvent(cfg, branch, reason, api.event)
        del == deleteResource(cfg, res, branch, api.delete)
    IN IF ~del.ok THEN [Ret(res) EXCEPT !.err = TRUE, !.trace = <<ev, del>>]
       ELSE IF locks /\ held THEN [Ret(res) EXCEPT !.blocked = TRUE, !.trace = <<ev, del>>]
       ELSE [Ret(res) EXCEPT !.trace = <<ev, del>>, !.inc = <<DeletedKey(KindOf(res))>>]

\* the expired arm of a branch: event, delete, (Lock,) counter increment
expire(cfg, res, branch, reason, api, locks, held) ==
    LET ev  == createEvent(cfg, branch, reason, api.event)
        del == deleteResource(cfg, res, branch, api.delete)
    IN IF ~ev.ok THEN [Ret(res) EXCEPT !.err = TRUE, !.trace = <<ev>>]
       ELSE IF ~del.ok THEN [Ret(res) EXCEPT !.err = TRUE, !.trace = <<ev, del>>]
       ELSE IF locks /\ held THEN [Ret(res) EXCEPT !.blocked = TRUE, !.trace = <<ev, del>>]
       ELSE [Ret(res) EXCEPT !.trace = <<ev, del>>, !.inc = <<DeletedKey(KindOf(res))>>]

notify_inclusive(cfg, res, branch, expiryTime, now, api) ==
    IF cfg.DeleteNotification > 0
    THEN IF now >= expiryTime - cfg.DeleteNotification /\ ~wasNotified(res)
         THEN sendDeleteNotification(cfg, res, branch, api.event)
         ELSE Ret(res)
    ELSE Ret(res)

\* the notification arm of a branch
notify(cfg, res, branch, expiryTime, now, api) ==
    IF cfg.DeleteNotification > 0
    THEN IF now > expiryTime - cfg.DeleteNotification /\ ~wasNotified(res)
         THEN sendDeleteNotification(cfg, res, branch, api.event)
         ELSE Ret(res)
    ELSE Ret(res)

\* a workload item (pod, or the pod template of a Deployment, Job, CronJob) has
\* a volume that names the claim; a volume is [PersistentVolumeClaim, ClaimName],
\* PersistentVolumeClaim FALSE for the nil pointer of any other volume source
referencesClaim(item, pvcName) ==
    \E v \in 1..Len(item.volumes) :
        item.volumes[v].PersistentVolumeClaim /\ item.volumes[v].ClaimName = pvcName

\* regexp ^<template>-<statefulset>-[0-9]+$ on the claim's name
claimPatternMatches(template, stsName, pvcName) ==
    LET prefix == template \o <<"-">> \o stsName \o <<"-">>
    IN /\ Len(pvcName) > Len(prefix)
       /\ SubSeq(pvcName, 1, Len(prefix)) = prefix
       /\ \A k \in (Len(prefix) + 1)..Len(pvcName) : pvcName[k] \in Digits

\* isPVCReferencedByDeployments, ...ByJobs, ...ByCronJobs: [err, referenced]
isPVCReferencedBy(items, ok, pvcName) ==
    IF ~ok THEN [err |-> TRUE, referenced |-> FALSE]
    ELSE [err |-> FALSE,
          referenced |-> \E i \in 1..Len(items) : referencesClaim(items[i], pvcName)]

\* getPVCContext without the look at the CronJobs
getPVCContext_noCronJobs(pvcName, env) ==
    LET isMounted == \E i \in 1..Len(env.pods) : referencesClaim(env.pods[i], pvcName)
        bySts ==
            \E i \in 1..Len(env.statefulsets) :
                \E t \in 1..Len(env.statefulsets[i].templates) :
                    claimPatternMatches(env.statefulsets[i].templates[t],
                                        env.statefulsets[i].name, pvcName)
        byDeploy == isPVCReferencedBy(env.deployments, env.ok.deployments, pvcName)
        byJob == isPVCReferencedBy(env.jobs, env.ok.jobs, pvcName)
        isReferenced ==
            IF bySts THEN TRUE
            ELSE IF ~byDeploy.err /\ byDeploy.referenced THEN TRUE
            ELSE ~byJob.err /\ byJob.referenced
    IN IF ~env.ok.pods THEN [err |-> TRUE, PVCIsNotMounted |-> FALSE, PVCIsNotReferenced |-> FALSE]
       ELSE IF ~env.ok.statefulsets
       THEN [err |-> TRUE, PVCIsNotMounted |-> FALSE, PVCIsNotReferenced |-> FALSE]
       ELSE [err |-> FALSE, PVCIsNotMounted |-> ~isMounted,
             PVCIsNotReferenced |-> ~isReferenced]

\* getPVCContext; env: what the listings of the claim's namespace return
\* (env.ok[l]: listing l succeeds)
getPVCContext(pvcName, env) ==
    LET isMounted == \E i \in 1..Len(env.pods) : referencesClaim(env.pods[i], pvcName)
        bySts ==
            \E i \in 1..Len(env.statefulsets) :
                \E t \in 1..Len(env.statefulsets[i].templates) :
                    claimPatternMatches(env.statefulsets[i].templates[t],
                                        env.statefulsets[i].name, pvcName)
        byDeploy == isPVCReferencedBy(env.deployments, env.ok.deployments, pvcName)
        byJob == isPVCReferencedBy(env.jobs, env.ok.jobs, pvcName)
        byCron == isPVCReferencedBy(env.cronjobs, env.ok.cronjobs, pvcName)
        isReferenced ==
            IF bySts THEN TRUE
            ELSE IF ~byDeploy.err /\ byDeploy.referenced THEN TRUE
            ELSE IF ~byJob.err /\ byJob.referenced THEN TRUE
            ELSE ~byCron.err /\ byCron.referenced
    IN IF ~env.ok.pods THEN [err |-> TRUE, PVCIsNotMounted |-> FALSE, PVCIsNotReferenced |-> FALSE]
       ELSE IF ~env.ok.statefulsets
       THEN [err |-> TRUE, PVCIsNotMounted |-> FALSE, PVCIsNotReferenced |-> FALSE]
       ELSE [err |-> FALSE, PVCIsNotMounted |-> ~isMounted,
             PVCIsNotReferenced |-> ~isReferenced]

\* getResourceContext: the facts of a storage claim; the facts of the hook are
\* left out (see hooked)
getResourceContext(cfg, res) ==
    IF ToLower(KindOf(res)) = persistentvolumeclaim
    THEN LET pvcContext == getPVCContext(res.name, res.env)
         IN IF pvcContext.err THEN [err |-> TRUE, context |-> NoContext]
            ELSE [err |-> FALSE,
                  context |-> {<<"pvc_is_not_mounted", pvcContext.PVCIsNotMounted>>,
                               <<"pvc_is_not_referenced", pvcContext.PVCIsNotReferenced>>}]
    ELSE [err |-> FALSE, context |-> NoContext]

RECURSIVE rulesLoop(_, _, _, _, _, _, _)
\* the loop of handleRules over j.config.Rules, from rule i on
rulesLoop(cfg, res, now, api, held, context, i) ==
    IF i > Len(cfg.Rules) THEN Ret(res)
    ELSE
      LET rule == cfg.Rules[i]
          rest == rulesLoop(cfg, res, now, api, held, context, i + 1)
      IN IF ~Matches(rule, objectToMap(res), context)
         THEN [rest EXCEPT !.evaluated = <<i>> \o @]
         ELSE
           LET ttl == ParseTTL(rule.TTL)
               expiryTime == deploymentTime(cfg, res) + ttl.d
               r == IF ttl.err THEN [Ret(res) EXCEPT !.err = TRUE]
                    ELSE IF ttl.d < 0 THEN rest
                    ELSE IF now > expiryTime
                         THEN expire(cfg, res, "rule", "RuleTTLExpired", api, TRUE, held)
                         ELSE notify(cfg, res, "rule", expiryTime, now, api)
           IN [r EXCEPT !.evaluated = <<i>> \o @, !.applied = <<i>> \o @]

\* handleRules
handleRules(cfg, res, now, api, held) ==
    IF Len(cfg.Rules) = 0 THEN Ret(res)
    ELSE LET c == getResourceContext(cfg, res)
             context == IF c.err THEN NoContext ELSE c.context
         IN [rulesLoop(cfg, res, now, api, held, context, 1) EXCEPT
                !.hooked = cfg.ResourceContextHook]

\* handleTTL comparing with >= instead of After
handleTTL_inclusive(cfg, res, now, api, held) ==
    IF res.ann.nil THEN Ret(res)
    ELSE IF ~HasAnnotation(res, TTLAnnotation)
    THEN handleRules(cfg, res, now, api, held)
    ELSE
      LET ttl == ParseTTL(res.ann.ttl)
          expiryTime == deploymentTime(cfg, res) + ttl.d
      IN IF ttl.err THEN [Ret(res) EXCEPT !.err = TRUE]
         ELSE IF ttl.d < 0 THEN Ret(res)
         ELSE IF now >= expiryTime
              THEN expire(cfg, res, "ttl", "TTLExpired", api, FALSE, held)
              ELSE notify(cfg, res, "ttl", expiryTime, now, api)

\* handleTTL without the test for the unlimited sentinel
handleTTL_noSentinel(cfg, res, now, api, held) ==
    IF res.ann.nil THEN Ret(res)
    ELSE IF ~HasAnnotation(res, TTLAnnotation)
    THEN handleRules(cfg, res, now, api, held)
    ELSE
      LET ttl == ParseTTL(res.ann.ttl)
          expiryTime == deploymentTime(cfg, res) + ttl.d
      IN IF ttl.err THEN [Ret(res) EXCEPT !.err = TRUE]
         ELSE IF now > expiryTime
              THEN expire(cfg, res, "ttl", "TTLExpired", api, FALSE, held)
              ELSE notify(cfg, res, "ttl", expiryTime, now, api)

\* handleTTL falling back to the rules when the annotation gives no finite TTL
handleTTL_rulesFallback(cfg, res, now, api, held) ==
    IF res.ann.nil THEN Ret(res)
    ELSE IF ~HasAnnotation(res, TTLAnnotation)
    THEN handleRules(cfg, res, now, api, held)
    ELSE
      LET ttl == ParseTTL(res.ann.ttl)
          expiryTime == deploymentTime(cfg, res) + ttl.d
      IN IF ttl.err \/ ttl.d < 0 THEN handleRules(cfg, res, now, api, held)
         ELSE IF now > expiryTime
              THEN expire(cfg, res, "ttl", "TTLExpired", api, FALSE, held)
              ELSE notify(cfg, res, "ttl", expiryTime, now, api)

\* handleTTL
handleTTL(cfg, res, now, api, held) ==
    IF res.ann.nil THEN Ret(res)
    ELSE IF ~HasAnnotation(res, TTLAnnotation)
    THEN handleRules(cfg, res, now, api, held)
    ELSE
      LET ttl == ParseTTL(res.ann.ttl)
          expiryTime == deploymentTime(cfg, res) + ttl.d
      IN IF ttl.err THEN [Ret(res) EXCEPT !.err = TRUE]
         ELSE IF ttl.d < 0 THEN Ret(res)
         ELSE IF now > expiryTime
              THEN expire(cfg, res, "ttl", "TTLExpired", api, FALSE, held)
              ELSE notify(cfg, res, "ttl", expiryTime, now, api)

\* handleExpiry
handleExpiry(cfg, res, now, api, held) ==
    IF res.ann.nil THEN Ret(res)
    ELSE IF ~HasAnnotation(res, ExpiryAnnotation) THEN Ret(res)
    ELSE
      LET expiryTime == ParseRFC3339(res.ann.expires)
      IN IF expiryTime.err THEN [Ret(res) EXCEPT !.err = TRUE]
         ELSE IF now > expiryTime.t
              THEN expire(cfg, res, "expiry", "ExpiryTimeReached", api, TRUE, held)
              ELSE notify(cfg, res, "expiry", expiryTime.t, now, api)

\* matchesResourceFilter without the tests of the exclude lists
matchesResourceFilter_noExclude(cfg, res) ==
    LET kind == IF res.typed THEN KindNamespace ELSE res.kind
        namespace == IF kind = KindNamespace THEN res.name ELSE res.namespace
        resourceType == ToLower(kind) \o <<"s">>
        resourceIncluded ==
            \E i \in 1..Len(cfg.IncludeResources) :
                cfg.IncludeResources[i] = all \/ cfg.IncludeResources[i] = resourceType
        namespaceIncluded(ns) ==
            \E i \in 1..Len(cfg.IncludeNamespaces) :
                cfg.IncludeNamespaces[i] = "all" \/ cfg.IncludeNamespaces[i] = ns
    IN IF ~resourceIncluded THEN FALSE
       ELSE IF kind = KindNamespace THEN namespaceIncluded(res.name)
       ELSE IF namespace = "" THEN cfg.IncludeClusterResources
       ELSE namespaceIncluded(namespace)

\* matchesResourceFilter treating a Namespace like any cluster-scoped object
matchesResourceFilter_noSpecialCase(cfg, res) ==
    LET kind == IF res.typed THEN KindNamespace ELSE res.kind
        resourceType == ToLower(kind) \o <<"s">>
        resourceIncluded ==
            \E i \in 1..Len(cfg.IncludeResources) :
                cfg.IncludeResources[i] = all \/ cfg.IncludeResources[i] = resourceType
        namespaceIncluded(ns) ==
            /\ ~stringInSlice(ns, cfg.ExcludeNamespaces)
            /\ \E i \in 1..Len(cfg.IncludeNamespaces) :
                   cfg.IncludeNamespaces[i] = "all" \/ cfg.IncludeNamespaces[i] = ns
    IN IF stringInSlice(resourceType, cfg.ExcludeResources) THEN FALSE
       ELSE IF ~resourceIncluded THEN FALSE
       ELSE IF res.namespace = "" THEN cfg.IncludeClusterResources
       ELSE namespaceIncluded(res.namespace)

\* matchesResourceFilter
matchesResourceFilter(cfg, res) ==
    LET kind == IF res.typed THEN KindNamespace ELSE res.kind
        namespace == IF kind = KindNamespace THEN res.name ELSE res.namespace
        resourceType == ToLower(kind) \o <<"s">>
        resourceIncluded ==
            \E i \in 1..Len(cfg.IncludeResources) :
                cfg.IncludeResources[i] = all \/ cfg.IncludeResources[i] = resourceType
        namespaceIncluded(ns) ==
            /\ ~stringInSlice(ns, cfg.ExcludeNamespaces)
            /\ \E i \in 1..Len(cfg.IncludeNamespaces) :
                   cfg.IncludeNamespaces[i] = "all" \/ cfg.IncludeNamespaces[i] = ns
    IN IF stringInSlice(resourceType, cfg.ExcludeResources) THEN FALSE
       ELSE IF ~resourceIncluded THEN FALSE
       ELSE IF kind = KindNamespace THEN namespaceIncluded(res.name)
       ELSE IF namespace = "" THEN cfg.IncludeClusterResources
       ELSE namespaceIncluded(namespace)

\* handleResource after the filter, holding counterMutex: the TTL/rule branch,
\* then the absolute-expiry branch; api.ttl and api.expiry are the outcomes of
\* the external calls of the two branches
handleResource(cfg, res, now, api) ==
    LET r1 == handleTTL(cfg, res, now, api.ttl, TRUE)
        r2 == handleExpiry(cfg, r1.res, now, api.expiry, TRUE)
    IN IF r1.blocked \/ r1.err
       THEN [r1 EXCEPT !.inc = <<ResourcesProcessed>> \o @] @@ [ranExpiry |-> FALSE]
       ELSE [err |-> r2.err, blocked |-> r2.blocked,
             trace |-> r1.trace \o r2.trace,
             inc |-> <<ResourcesProcessed>> \o r1.inc \o r2.inc,
             res |-> r2.res, evaluated |-> r1.evaluated, applied |-> r1.applied,
             hooked |-> r1.hooked, ranExpiry |-> TRUE]

(***************************************************************************)
(* Bounds and input domains                                                *)
(***************************************************************************)
MaxTime == 3
MaxRules == 2

\* the expressions of the rule file
Exprs == {"e1", "e2"}

\* the rules a rule file is made of; LoadRules validated every TTL
RuleA == [Resources |-> <<star>>, JMESPath |-> "e1", TTL |-> <<"1", "s">>]
RuleB == [Resources |-> <<pods, KindPod \o <<"s">>>>, JMESPath |-> "e2", TTL |-> <<"2", "s">>]
RuleF == [Resources |-> <<star>>, JMESPath |-> "e2", TTL |-> TTLUnlimited]
RuleSet == {RuleA, RuleB, RuleF}

\* ordered rule lists without repetition, at most MaxRules long
RuleLists ==
    UNION {{l \in [1..n -> RuleSet] : \A i, j \in 1..n : i # j => l[i] # l[j]}
               : n \in 0..MaxRules}

\* values of the janitor/ttl annotation: unlimited, finite, malformed
TTLValues == {TTLUnlimited, <<"1", "s">>, <<"1", "x">>}

\* annotation maps: nil, or a non-empty map
AnnotationMaps(deployKey) ==
    {[nil |-> TRUE, keys |-> {}, ttl |-> <<>>, expires |-> NoTime, deploy |-> NoTime]}
    \cup
    {[nil |-> FALSE, keys |-> k \cup (IF k = {} THEN {"other"} ELSE {}),
      ttl |-> IF TTLAnnotation \in k THEN t ELSE <<>>,
      expires |-> IF ExpiryAnnotation \in k THEN e ELSE NoTime,
      deploy |-> IF deployKey \in k THEN d ELSE NoTime] :
        k \in SUBSET ({TTLAnnotation, ExpiryAnnotation, NotifiedAnnotation}
                        \cup (IF deployKey = "" THEN {} ELSE {deployKey})),
        t \in TTLValues,
        e \in {[fmt |-> "rfc3339", t |-> 2], [fmt |-> "date", t |-> 0]},
        d \in {[fmt |-> "rfc3339", t |-> 1], [fmt |-> "rfc3339", t |-> ZeroTime],
               [fmt |-> "invalid", t |-> 0]}}

SearchTables == [Exprs -> {[t |-> "bool", n |-> 1], [t |-> "bool", n |-> 0]}]

\* an unstructured Pod of namespace "a"; listNamespacedResources sets its kind
PodResource(name, ann, search) ==
    [kind |-> KindPod, typed |-> FALSE, hasKind |-> TRUE, namespace |-> "a",
     name |-> name, created |-> 0, ann |-> ann, search |-> search]

\* a Namespace: typed (namespace pass; the items of a typed list carry no kind)
\* or unstructured (listClusterResources)
NamespaceResource(name, typed, ann, search) ==
    [kind |-> KindNamespace, typed |-> typed, hasKind |-> ~typed, namespace |-> "",
     name |-> name, created |-> 0, ann |-> ann, search |-> search]

\* an unstructured cluster-scoped object that is no Namespace
NodeResource(name, ann, search) ==
    [kind |-> KindNode, typed |-> FALSE, hasKind |-> TRUE, namespace |-> "",
     name |-> name, created |-> 0, ann |-> ann, search |-> search]

\* an unstructured PersistentVolumeClaim of namespace "a" with annotations but
\* none the janitor reads; env: what the listings of namespace "a" return
PVCResource(name, env) ==
    [kind |-> KindPVC, typed |-> FALSE, hasKind |-> TRUE, namespace |-> "a",
     name |-> name, created |-> 0,
     ann |-> [nil |-> FALSE, keys |-> {"other"}, ttl |-> <<>>,
              expires |-> NoTime, deploy |-> NoTime],
     search |-> [e \in Exprs |-> [t |-> "null", n |-> 0]],
     env |-> env]

NoResource == PodResource("", [nil |-> TRUE, keys |-> {}, ttl |-> <<>>,
                                expires |-> NoTime, deploy |-> NoTime],
                          [e \in Exprs |-> [t |-> "null", n |-> 0]])

Config(dry, notification, deployKey, rules, parallelism, cluster) ==
    [DryRun |-> dry, DeleteNotification |-> notification,
     DeploymentTimeAnnotation |-> deployKey, Rules |-> rules,
     IncludeResources |-> <<all>>, ExcludeResources |-> <<>>,
     IncludeNamespaces |-> <<"all">>, ExcludeNamespaces |-> <<>>,
     IncludeClusterResources |-> cluster, Parallelism |-> parallelism,
     Quiet |-> FALSE, ResourceContextHook |-> FALSE]

ApiOutcomes == [event : BOOLEAN, delete : BOOLEAN]

\* number of worker goroutines the pool may start
MaxWorkers == 2

VARIABLES
    cfg,          \* j.config
    now,          \* time.Now() of the pass
    dRes,         \* the resource given to handleResource
    dOut,         \* what handleResource did: a decision result
    dpc,          \* "off", "ready", "returned", "blocked", "gone"
    run,          \* number of passes made over the object
    sent,         \* per pass: a delete notification was sent
    cache,        \* j.cache: 0 (no random_dice key) or the memoized dice value
    mRule,        \* the rule Matches is called on
    mRes,         \* the resource map given to Matches
    mOut,         \* what Matches returned
    mpc,          \* "off", "ready", "done"
    objects,      \* the cluster: annotation map of every object
    deleted,      \* the objects a delete call went through for
    catalog,      \* what GetResourceTypes returns
    cpc,          \* where CleanUp is
    typeIdx,      \* index of the loop over resourceTypes
    resourceCh,   \* the channel of processResourcesInParallel (filled, closed)
    wpc,          \* where each worker goroutine is
    wres,         \* the resource a worker holds
    alreadySeen,  \* the map CleanUp makes
    nsSeen,       \* the map cleanupNamespaces makes
    counterMutex, \* 0, or the worker that holds j.counterMutex
    counter,      \* j.counter
    handled,      \* calls of handleResource, per object
    processed,    \* increments of resources-processed, per object
    summary,      \* what the run reported: the summary line, the error CleanUp
                  \* returned, the decisions the workers logged as failed
    ctxDone,      \* the ctx given to CleanUp is cancelled
    dequeued,     \* history: the resources the workers held when ctx was cancelled
    fn,           \* the function called on its own
    arg,          \* its argument
    ret,          \* what it returned
    fpc,          \* "off", "ready", "done"
    gs,           \* the GracefulShutdown: shutdownNow, safeToExit, done (closed),
                  \* mu (who holds the write lock), and the signals buffered in the
                  \* sigChan of handleSignals
    sigpc,        \* where the goroutine handleSignals is
    mainpc        \* where main is

decideVars == <<dRes, dOut, dpc, run, sent, cache>>
matchVars  == <<mRule, mRes, mOut, mpc>>
runVars    == <<objects, deleted, catalog, cpc, typeIdx, resourceCh, wpc, wres, alreadySeen,
               nsSeen, counterMutex, counter, handled, processed, summary>>

ctxVars    == <<ctxDone, dequeued>>
callVars   == <<fn, arg, ret, fpc>>
shutVars   == <<gs, sigpc, mainpc>>

vars == <<cfg, now, decideVars, matchVars, runVars, ctxVars, callVars, shutVars>>

(***************************************************************************)
(* The decision engine on one resource                                     *)
(***************************************************************************)
NoOut == Ret(NoResource) @@ [ranExpiry |-> FALSE]

Workers == 1..MaxWorkers

\* the keys j.counter can hold
CounterKeys ==
    {ResourcesProcessed}
      \cup {DeletedKey(k) : k \in {KindPod, KindNamespace, KindNode, KindUnknown}}

\* the objects of the cluster: <<kind, namespace, name>>
PodNames == {"p1", "p2"}
Identities ==
    {<<KindNamespace, "", "a">>, <<KindNode, "", "n1">>}
      \cup {<<KindPod, "a", n>> : n \in PodNames}

\* nothing reported yet
NoSummary ==
    [emitted |-> FALSE, stats |-> [k \in CounterKeys |-> 0], err |-> "",
     errors |-> [id \in Identities |-> 0]]

\* the state of the parts a specification does not use
IdleCtx ==
    /\ ctxDone = FALSE /\ dequeued = {}
IdleDecide ==
    /\ dRes = NoResource /\ dOut = NoOut /\ dpc = "off"
    /\ run = 0 /\ sent = <<>> /\ cache = 0
IdleMatch ==
    /\ mRule = RuleA /\ mRes = objectToMap(NoResource) /\ mOut = FALSE /\ mpc = "off"
IdleRun ==
    /\ objects = [id \in Identities |-> NoResource.ann] /\ deleted = {}
    /\ catalog = <<>> /\ cpc = "off" /\ typeIdx = 1
    /\ resourceCh = <<>>
    /\ wpc = [w \in Workers |-> "off"] /\ wres = [w \in Workers |-> NoResource]
    /\ alreadySeen = {} /\ nsSeen = {} /\ counterMutex = 0
    /\ counter = [k \in CounterKeys |-> 0]
    /\ handled = [id \in Identities |-> 0] /\ processed = [id \in Identities |-> 0]
    /\ summary = NoSummary
    /\ IdleCtx
IdleCall ==
    /\ fn = "" /\ arg = <<>> /\ ret = <<>> /\ fpc = "off"
IdleShut ==
    /\ gs = [shutdownNow |-> FALSE, safeToExit |-> FALSE, done |-> FALSE, mu |-> "",
             sigChan |-> 0]
    /\ sigpc = "off" /\ mainpc = "off"

InitDecide ==
    /\ \E dry \in BOOLEAN, n \in {0, 1}, key \in {"", "deployed"}, rules \in RuleLists :
          cfg = Config(dry, n, key, rules, 1, FALSE)
    /\ now \in 0..MaxTime
    /\ \E ann \in AnnotationMaps(cfg.DeploymentTimeAnnotation), search \in SearchTables :
          dRes \in {PodResource("p", ann, search),
                    NamespaceResource("a", TRUE, ann, search)}
    /\ dOut = NoOut
    /\ dpc = "ready"
    /\ run = 0 /\ sent = <<>> /\ cache = 0
    /\ IdleMatch /\ IdleRun /\ IdleCall /\ IdleShut

\* handleResource on a resource that passes the filter
DecideResource ==
    /\ dpc = "ready"
    /\ matchesResourceFilter(cfg, dRes)
    /\ \E t \in ApiOutcomes, e \in ApiOutcomes :
       \E r \in {handleResource(cfg, dRes, now, [ttl |-> t, expiry |-> e])} :
             /\ dOut' = r
             /\ dpc' = IF r.blocked THEN "blocked" ELSE "returned"
    /\ UNCHANGED <<cfg, ctxVars, callVars, shutVars, now, dRes, run, sent, cache, matchVars, runVars>>

NextDecide == DecideResource

SpecDecide == InitDecide /\ [][NextDecide]_vars

(***************************************************************************)
(* Claims about the decision engine (checked under SpecDecide)             *)
(***************************************************************************)
Decided == dpc # "ready"

\* the calls of dOut made by the TTL/rule branch
TTLBranchCalls(call) ==
    {i \in 1..Len(dOut.trace) :
        dOut.trace[i].call = call /\ dOut.trace[i].branch \in {"ttl", "rule"}}

ExpiryBranchCalls(call) ==
    {i \in 1..Len(dOut.trace) :
        dOut.trace[i].call = call /\ dOut.trace[i].branch = "expiry"}

\* the rules of the list that match dRes, by Rule.Matches
MatchingRules ==
    {i \in 1..Len(cfg.Rules) : Matches(cfg.Rules[i], objectToMap(dRes), NoContext)}

FirstMatch == CHOOSE i \in MatchingRules : \A j \in MatchingRules : i <= j

HasTTLAnnotation == HasAnnotation(dRes, TTLAnnotation)

\* the TTL that governs dRes: its annotation, else the first matching rule
HasGoverningTTL == HasTTLAnnotation \/ MatchingRules # {}
GoverningTTL ==
    IF HasTTLAnnotation THEN ParseTTL(dRes.ann.ttl) ELSE ParseTTL(cfg.Rules[FirstMatch].TTL)
FiniteTTL == HasGoverningTTL /\ ~GoverningTTL.err /\ GoverningTTL.d >= 0
ExpiresAt == deploymentTime(cfg, dRes) + GoverningTTL.d

\* C3: with a finite TTL d and deployment time T, the TTL/rule branch emits the
\* lifecycle event and issues the delete if and only if now >= T + d, and issues
\* no delete when now < T + d.
C3_DeleteIffDue ==
    (Decided /\ FiniteTTL) =>
        /\ (TTLBranchCalls("deleteResource") # {}) <=> (now >= ExpiresAt)
        /\ (\E i \in TTLBranchCalls("createEvent") : dOut.trace[i].reason # "DeleteNotification")
              <=> (now >= ExpiresAt)

\* the TTL the TTL/rule branch acted on: the annotation's, else that of the
\* last rule whose TTL the rule loop parsed
Acted == HasTTLAnnotation \/ dOut.applied # <<>>
ActedTTL ==
    IF HasTTLAnnotation THEN ParseTTL(dRes.ann.ttl)
    ELSE ParseTTL(cfg.Rules[dOut.applied[Len(dOut.applied)]].TTL)
ActedExpiresAt == deploymentTime(cfg, dRes) + ActedTTL.d

\* C3 (amended): when the TTL/rule branch acts on a finite TTL d (the TTL
\* annotation's, or that of the matching rule it selects) with deployment time T,
\* it attempts the lifecycle event if and only if now > T + d, and issues the
\* delete exactly when that event was created; when now <= T + d it issues no
\* delete.
C3_DeleteIffPastDue ==
    (Decided /\ Acted /\ ~ActedTTL.err /\ ActedTTL.d >= 0) =>
        LET events == {i \in TTLBranchCalls("createEvent") :
                          dOut.trace[i].reason # "DeleteNotification"}
        IN /\ (events # {}) <=> (now > ActedExpiresAt)
           /\ (TTLBranchCalls("deleteResource") # {})
                 <=> (now > ActedExpiresAt /\ \E i \in events : dOut.trace[i].ok)

\* the boundary: a pass at the very instant T + d, through an annotation
C3_Witness ==
    /\ Decided /\ HasTTLAnnotation /\ ~ActedTTL.err /\ ActedTTL.d >= 0
    /\ now = ActedExpiresAt
    /\ TTLBranchCalls("deleteResource") = {}
    /\ ~cfg.DryRun

\* C4: an object whose TTL annotation is "forever" is never deleted and never
\* notified by the TTL/rule branch, whatever its age; ParseTTL("forever") is the
\* negative sentinel.
C4_ForeverExempt ==
    /\ ~ParseTTL(TTLUnlimited).err /\ ParseTTL(TTLUnlimited).d < 0
    /\ (Decided /\ HasTTLAnnotation /\ dRes.ann.ttl = TTLUnlimited) =>
          \A i \in 1..Len(dOut.trace) : dOut.trace[i].branch = "expiry"

C4_Witness ==
    /\ dpc = "returned" /\ HasTTLAnnotation /\ dRes.ann.ttl = TTLUnlimited
    /\ now > deploymentTime(cfg, dRes) + 1
    /\ MatchingRules # {} /\ cfg.DeleteNotification > 0 /\ ~cfg.DryRun

\* C5: first match wins: for an object without a TTL annotation, no rule after the
\* first matching rule is evaluated or applied, and what the rule branch does is
\* what the first matching rule's TTL dictates.
C5_FirstMatchWins ==
    (Decided /\ ~HasTTLAnnotation /\ MatchingRules # {}) =>
        /\ \A k \in 1..Len(dOut.evaluated) : dOut.evaluated[k] <= FirstMatch
        /\ \A k \in 1..Len(dOut.applied) : dOut.applied[k] = FirstMatch
        /\ (TTLBranchCalls("deleteResource") # {}) => (FiniteTTL /\ now > ExpiresAt)

\* C6: for every processed object without a TTL annotation (annotation map absent
\* or holding only other keys) the rules are evaluated in list order and the TTL of
\* the first matching rule is applied as if it were the object's TTL annotation.
AsIfAnnotated ==
    [dRes EXCEPT !.ann.nil = FALSE, !.ann.keys = @ \cup {TTLAnnotation},
                 !.ann.ttl = cfg.Rules[FirstMatch].TTL]

Calls(trace) == [i \in 1..Len(trace) |-> <<trace[i].call, trace[i].ok>>]

C6_RulesApplyWithoutAnnotation ==
    (Decided /\ ~HasTTLAnnotation /\ MatchingRules # {}) =>
        /\ Len(dOut.evaluated) > 0
        /\ \A k \in 1..FirstMatch : k \in {dOut.evaluated[n] : n \in 1..Len(dOut.evaluated)}
        /\ \E t \in ApiOutcomes :
              LET a == handleTTL(cfg, AsIfAnnotated, now, t, FALSE)
              IN Calls(a.trace) =
                    Calls(SubSeq(dOut.trace, 1,
                                 Cardinality({i \in 1..Len(dOut.trace) :
                                                dOut.trace[i].branch # "expiry"})))

\* C7: an object that carries a TTL annotation is never matched against any rule:
\* its TTL/rule branch does what it would do with an empty rule list.
C7_AnnotationBypassesRules ==
    (Decided /\ HasTTLAnnotation) =>
        /\ dOut.evaluated = <<>> /\ dOut.applied = <<>>
        /\ \A i \in 1..Len(dOut.trace) : dOut.trace[i].branch # "rule"
        /\ \E t \in ApiOutcomes, e \in ApiOutcomes :
              dOut = handleResource([cfg EXCEPT !.Rules = <<>>], dRes, now,
                                    [ttl |-> t, expiry |-> e])

C7_Witness ==
    /\ Decided /\ HasTTLAnnotation /\ MatchingRules # {}
    /\ dRes.ann.ttl \in {TTLUnlimited, <<"1", "x">>}
    /\ now > deploymentTime(cfg, dRes) + 2

\* C10: for every processed object with an absolute-expiry annotation the expiry
\* branch runs in the same pass however the TTL/rule branch ended; a past-due
\* expiry annotation then still leads to a delete attempt (its event, then delete).
PastDue ==
    /\ HasAnnotation(dRes, ExpiryAnnotation)
    /\ ~ParseRFC3339(dRes.ann.expires).err
    /\ now > ParseRFC3339(dRes.ann.expires).t

C10_ExpiryBranchAlwaysRuns ==
    (Decided /\ HasAnnotation(dRes, ExpiryAnnotation)) =>
        /\ dOut.ranExpiry
        /\ PastDue => ExpiryBranchCalls("createEvent") # {}

\* C11: the absolute-expiry branch accepts a value in each of the layouts RFC 3339,
\* YYYY-MM-DDTHH:MM and YYYY-MM-DD, and reports a format error (an error before any
\* call of the branch) only for a value in none of them; an accepted value that is
\* past due leads to the event of the branch.
C11_ExpiryFormats ==
    (Decided /\ dOut.ranExpiry /\ HasAnnotation(dRes, ExpiryAnnotation)
       /\ ~ParseExpiry(dRes.ann.expires).err) =>
        /\ ~(dOut.err /\ ExpiryBranchCalls("createEvent") = {})
        /\ now > ParseExpiry(dRes.ann.expires).t => ExpiryBranchCalls("createEvent") # {}

\* the <type>-deleted increments of the decision
DeletedIncrements ==
    {i \in 1..Len(dOut.inc) : dOut.inc[i] # ResourcesProcessed}

\* C12: in dry-run no event-create, delete or webhook call reaches the external
\* clients and the notified marker is not added to the object, while the
\* <type>-deleted counter is incremented once for every delete that would have
\* been issued.
C12_DryRunPreview ==
    (Decided /\ cfg.DryRun) =>
        /\ \A i \in 1..Len(dOut.trace) : ~dOut.trace[i].api
        /\ dOut.res.ann = dRes.ann
        /\ Cardinality(DeletedIncrements)
              = Cardinality({i \in 1..Len(dOut.trace) : dOut.trace[i].call = "deleteResource"})

(***************************************************************************)
(* Consecutive runs over one object of the cluster: every run lists the    *)
(* object anew and decides on the listed copy.                             *)
(***************************************************************************)
MaxRuns == 3

\* the sides of the dice of hooks.RandomDice
DiceSides == 6

RandomDice_reroll(c, roll) == [random_dice |-> roll, cache |-> roll]

\* hooks.RandomDice(resource, cache): the cached value, else a roll that is cached
RandomDice(c, roll) ==
    IF c # 0 THEN [random_dice |-> c, cache |-> c]
    ELSE [random_dice |-> roll, cache |-> roll]

\* what the calls of a decision leave of the object in the cluster: a delete
\* that went through removes it; no call writes the object back
AfterCalls(obj, trace) ==
    IF \E i \in 1..Len(trace) :
          trace[i].call = "deleteResource" /\ trace[i].api /\ trace[i].ok
    THEN [gone |-> TRUE, obj |-> obj]
    ELSE [gone |-> FALSE, obj |-> obj]

\* a delete notification went out: its event was created
NotificationSent(trace) ==
    \E i \in 1..Len(trace) :
        trace[i].call = "createEvent" /\ trace[i].reason = "DeleteNotification"
          /\ trace[i].api /\ trace[i].ok

InitRuns ==
    /\ \E n \in {1, 2}, rules \in {<<>>, <<RuleB>>}, hook \in BOOLEAN :
          cfg = [Config(FALSE, n, "", rules, 1, FALSE) EXCEPT !.ResourceContextHook = hook]
    /\ now \in 0..MaxTime
    /\ \E ann \in AnnotationMaps(""), search \in SearchTables :
          dRes = PodResource("p", ann, search)
    /\ dOut = NoOut
    /\ dpc = "ready"
    /\ run = 0 /\ sent = <<>> /\ cache = 0
    /\ IdleMatch /\ IdleRun /\ IdleCall /\ IdleShut

\* one run of CleanUp as the object sees it: listed, handed to handleResource
RunPass ==
    /\ dpc \in {"ready", "returned"}
    /\ run < MaxRuns
    /\ matchesResourceFilter(cfg, dRes)
    /\ \E t \in ApiOutcomes, e \in ApiOutcomes :
       \E r \in {handleResource(cfg, dRes, now, [ttl |-> t, expiry |-> e])} :
          LET after == AfterCalls(dRes, r.trace)
          IN /\ dOut' = r
             /\ dRes' = after.obj
             /\ sent' = Append(sent, NotificationSent(r.trace))
             /\ \E roll \in 1..DiceSides :
                   cache' = IF r.hooked THEN RandomDice(cache, roll).cache ELSE cache
             /\ dpc' = IF r.blocked THEN "blocked"
                       ELSE IF after.gone THEN "gone" ELSE "returned"
    /\ run' = run + 1
    /\ UNCHANGED <<cfg, ctxVars, callVars, shutVars, now, matchVars, runVars>>

\* the ticker of main: the next run starts later
Tick ==
    /\ dpc = "returned"
    /\ now < MaxTime
    /\ now' = now + 1
    /\ UNCHANGED <<cfg, ctxVars, callVars, shutVars, decideVars, matchVars, runVars>>

NextRuns == RunPass \/ Tick

SpecRuns == InitRuns /\ [][NextRuns]_vars

\* C13: across consecutive non-dry-run runs a delete notification is sent for the
\* same object in at most one run: once notified, the object carries the marker
\* whenever it is listed again.
C13_NotifiedOnce ==
    /\ Cardinality({i \in 1..Len(sent) : sent[i]}) <= 1
    /\ (\E i \in 1..Len(sent) : sent[i]) => (dpc = "returned" => wasNotified(dRes))

\* C18: the cache lives for exactly one run: every run starts with an empty cache,
\* a value memoized in one run is not there for the hook in the next.
C18_CachePerRun ==
    dpc \in {"ready", "returned"} => cache = 0

(***************************************************************************)
(* The decision on one storage claim under rules that read the built-in    *)
(* context: the population of the claim's namespace and the outcome of     *)
(* every listing are drawn; DecideResource decides.                        *)
(***************************************************************************)
\* the objects of the namespace, over all kinds
MaxItems == 2

\* the listings of getPVCContext
Listings == {"pods", "statefulsets", "deployments", "jobs", "cronjobs"}

\* names of claims: one a StatefulSet yields, one with no ordinal, a plain one
ClaimNames == {<<"d", "-", "w", "-", "0">>, <<"d", "-", "w", "-", "x">>, <<"c">>}

ClaimVolume(name) == [PersistentVolumeClaim |-> TRUE, ClaimName |-> name]
OtherVolume == [PersistentVolumeClaim |-> FALSE, ClaimName |-> <<>>]

\* pods and the pod templates of Deployments, Jobs, CronJobs, by their volumes
WorkloadItems ==
    {[volumes |-> <<OtherVolume>>]}
    \cup {[volumes |-> <<ClaimVolume(c)>>] : c \in {<<"d", "-", "w", "-", "0">>, <<"c">>}}
    \cup {[volumes |-> <<OtherVolume, ClaimVolume(<<"c">>)>>]}

\* StatefulSets by name and the names of their volumeClaimTemplates
StatefulSetItems ==
    {[name |-> <<"w">>, templates |-> <<<<"d">>>>],
     [name |-> <<"w">>, templates |-> <<<<"e">>, <<"d">>>>],
     [name |-> <<"v">>, templates |-> <<<<"d">>>>]}

\* how many objects every listing returns: MaxItems at most in all
Populations ==
    {l \in [Listings -> 0..MaxItems] :
        l.pods + l.statefulsets + l.deployments + l.jobs + l.cronjobs <= MaxItems}

\* outcomes of the listings: at most one fails
ListOutcomes ==
    {o \in [Listings -> BOOLEAN] : \A a, b \in Listings : (~o[a] /\ ~o[b]) => a = b}

Environments ==
    UNION {[pods : [1..l.pods -> WorkloadItems],
            statefulsets : [1..l.statefulsets -> StatefulSetItems],
            deployments : [1..l.deployments -> WorkloadItems],
            jobs : [1..l.jobs -> WorkloadItems],
            cronjobs : [1..l.cronjobs -> WorkloadItems],
            ok : ListOutcomes] : l \in Populations}

\* rules on the facts of the built-in context
RuleNotMounted ==
    [Resources |-> <<star>>, JMESPath |-> "_context.pvc_is_not_mounted",
     TTL |-> <<"1", "s">>]
RuleNotReferenced ==
    [Resources |-> <<star>>, JMESPath |-> "_context.pvc_is_not_referenced",
     TTL |-> <<"1", "s">>]

InitContext ==
    /\ \E dry \in BOOLEAN, rule \in {RuleNotMounted, RuleNotReferenced} :
          cfg = Config(dry, 0, "", <<rule>>, 1, FALSE)
    /\ now \in {0, MaxTime}
    /\ \E name \in ClaimNames, env \in Environments : dRes = PVCResource(name, env)
    /\ dOut = NoOut
    /\ dpc = "ready"
    /\ run = 0 /\ sent = <<>> /\ cache = 0
    /\ IdleMatch /\ IdleRun /\ IdleCall /\ IdleShut

SpecContext == InitContext /\ [][NextDecide]_vars

\* some listing of the analysis of the decided claim failed
ListingFailed == \E l \in Listings : ~dRes.env.ok[l]

\* the single rule of the configuration matched the decided claim
RuleMatched == dOut.applied # <<>>

\* C19: if any listing of the storage-claim analysis fails (pods, StatefulSets,
\* Deployments, Jobs or CronJobs), the context computation fails and the rules
\* are evaluated with an empty context, so a rule on pvc_is_not_mounted or on
\* pvc_is_not_referenced does not match the claim; the decision returns no error.
C19_FailedAnalysisEmptyContext ==
    (Decided /\ ListingFailed) =>
        /\ ~RuleMatched
        /\ dOut.trace = <<>>
        /\ ~dOut.err /\ ~dOut.blocked

\* a pod of the namespace has a volume that is the claim
MountedByPod(name, env) ==
    \E i \in DOMAIN env.pods : \E v \in DOMAIN env.pods[i].volumes :
        env.pods[i].volumes[v] = ClaimVolume(name)

\* ordinals of the replicas of a StatefulSet, as decimal strings
Ordinals == {<<a>> : a \in Digits} \cup {<<a, b>> : a, b \in Digits}

\* a volume-claim template of a StatefulSet yields the name for some ordinal
YieldedByStatefulSet(name, env) ==
    \E i \in DOMAIN env.statefulsets : \E t \in DOMAIN env.statefulsets[i].templates :
        \E o \in Ordinals :
            name = env.statefulsets[i].templates[t] \o <<"-">>
                     \o env.statefulsets[i].name \o <<"-">> \o o

\* the pod template of a Deployment, Job or CronJob has a volume that is the claim
ReferencedByTemplate(name, env) ==
    \E l \in {"deployments", "jobs", "cronjobs"} :
        \E i \in DOMAIN env[l] : \E v \in DOMAIN env[l][i].volumes :
            env[l][i].volumes[v] = ClaimVolume(name)

\* the namespace with one more pod, which mounts the claim
WithMountingPod(name, env) ==
    [env EXCEPT !.pods = Append(@, [volumes |-> <<ClaimVolume(name)>>])]

\* C20: with every listing succeeding, pvc_is_not_mounted is true iff no pod
\* volume references the claim by name, and pvc_is_not_referenced is true iff no
\* StatefulSet volume-claim template yields <template>-<statefulset>-<ordinal>
\* equal to the claim's name and no Deployment, Job or CronJob pod template
\* references the claim; a further pod that mounts the claim changes only
\* pvc_is_not_mounted.
C20_ContextFacts ==
    (Decided /\ ~ListingFailed) =>
        LET name == dRes.name
            env == dRes.env
            more == getPVCContext(name, WithMountingPod(name, env))
        IN /\ cfg.Rules = <<RuleNotMounted>> =>
                (RuleMatched <=> ~MountedByPod(name, env))
           /\ cfg.Rules = <<RuleNotReferenced>> =>
                (RuleMatched <=>
                    (~YieldedByStatefulSet(name, env) /\ ~ReferencedByTemplate(name, env)))
           /\ ~more.err /\ ~more.PVCIsNotMounted
           /\ more.PVCIsNotReferenced = getPVCContext(name, env).PVCIsNotReferenced

\* a claim mounted by a pod and referenced by nothing matched the rule on
\* pvc_is_not_referenced
C20_Witness ==
    /\ Decided /\ ~ListingFailed
    /\ cfg.Rules = <<RuleNotReferenced>>
    /\ MountedByPod(dRes.name, dRes.env)
    /\ RuleMatched

(***************************************************************************)
(* Rule.Matches on one rule and one resource map                           *)
(***************************************************************************)
\* the Resources list of a rule
ResourceLists ==
    {<<>>, <<star>>, <<pods>>, <<services>>, <<services, pods>>,
     <<KindPod \o <<"s">>>>, <<namespaces, star>>}

InitMatch ==
    /\ cfg = Config(FALSE, 0, "", <<>>, 1, FALSE)
    /\ now = 0
    /\ \E rs \in ResourceLists, x \in Exprs :
          mRule = [Resources |-> rs, JMESPath |-> x, TTL |-> <<"1", "s">>]
    /\ \E hasKind \in BOOLEAN, kind \in {KindPod, KindService},
          search \in [Exprs -> SearchResults] :
          mRes = [hasKind |-> hasKind, kind |-> kind, search |-> search]
    /\ mOut = FALSE
    /\ mpc = "ready"
    /\ IdleDecide /\ IdleRun /\ IdleCall /\ IdleShut

\* rule.Matches(resource, nil)
CallMatches ==
    /\ mpc = "ready"
    /\ mOut' = Matches(mRule, mRes, NoContext)
    /\ mRes' = AfterMatches(mRule, mRes, NoContext)
    /\ mpc' = "done"
    /\ UNCHANGED <<cfg, ctxVars, callVars, shutVars, now, mRule, decideVars, runVars>>

NextMatch == CallMatches

SpecMatch == InitMatch /\ [][NextMatch]_vars

\* the gate as documented: "*" or the lower-cased kind followed by "s"
GatePasses ==
    \E i \in 1..Len(mRule.Resources) :
        \/ mRule.Resources[i] = star
        \/ mRule.Resources[i] = ToLower(mRes.kind) \o <<"s">>

\* the value the predicate of mRule yields on mRes
MatchResult == mRes.search[mRule.JMESPath]

IsTruthy ==
    \/ MatchResult.t = "bool" /\ MatchResult.n = 1
    \/ MatchResult.t \in {"string", "list", "map"} /\ MatchResult.n > 0

\* C8: the type gate of Matches passes exactly when the rule's resources hold "*"
\* or the lower-cased kind followed by "s"; when it fails Matches is false, and
\* when it passes a truthy predicate makes Matches true.
C8_TypeGate ==
    (mpc = "done" /\ mRes.hasKind) =>
        /\ ~GatePasses => ~mOut
        /\ (GatePasses /\ IsTruthy) => mOut
        /\ GatePasses <=> TypeGate(mRule, mRes.kind)

\* C9: when the type gate passes, Matches returns the truthiness of the predicate:
\* a boolean as it is, a string, list or map exactly when non-empty, anything
\* else (number, null) and an evaluation error false.
C9_Truthiness ==
    (mpc = "done" /\ mRes.hasKind /\ TypeGate(mRule, mRes.kind)) => (mOut <=> IsTruthy)

C9_Witness ==
    /\ mpc = "done" /\ mRes.hasKind /\ TypeGate(mRule, mRes.kind)
    /\ MatchResult = [t |-> "number", n |-> 1]
    /\ ~mOut

(***************************************************************************)
(* One run of CleanUp: the namespace pass, one pass per resource type, the *)
(* worker pool of processResourcesInParallel, the summary.                 *)
(***************************************************************************)
\* entries of the discovery catalogue: [Group, Version, Kind, Plural, Namespaced]
PodsV1 ==
    [Group |-> "", Version |-> "v1", Kind |-> KindPod, Plural |-> pods,
     Namespaced |-> TRUE]
\* the same collection served under a second API group
PodsAlias ==
    [Group |-> "alias.k8s.io", Version |-> "v1", Kind |-> KindPod, Plural |-> pods,
     Namespaced |-> TRUE]
NamespacesV1 ==
    [Group |-> "", Version |-> "v1", Kind |-> KindNamespace, Plural |-> namespaces,
     Namespaced |-> FALSE]

\* GetResourceTypes builds its result from a map: any order
Catalogs ==
    {<<PodsV1, NamespacesV1>>, <<NamespacesV1, PodsV1>>, <<PodsV1, PodsAlias>>,
     <<PodsAlias, NamespacesV1, PodsV1>>}

\* what the rules' expressions yield on the objects of the run
RunSearch == [e \in Exprs |-> [t |-> "bool", n |-> 1]]

\* annotation maps of the objects of the run
RunAnnotations ==
    {a \in AnnotationMaps("") :
        /\ NotifiedAnnotation \notin a.keys
        /\ a.ttl \in {<<>>, <<"1", "s">>}
        /\ a.expires.fmt \in {"invalid", "rfc3339"}
        /\ ~(TTLAnnotation \in a.keys /\ ExpiryAnnotation \in a.keys)}

\* the object id as the client hands it over
ResourceOf(id, typed) ==
    IF id[1] = KindNamespace
    THEN NamespaceResource(id[3], typed, objects[id], RunSearch)
    ELSE IF id[1] = KindNode THEN NodeResource(id[3], objects[id], RunSearch)
    ELSE PodResource(id[3], objects[id], RunSearch)

IdentityOf(res) == <<res.kind, res.namespace, res.name>>

\* the key of the alreadySeen map: fmt.Sprintf("%s/%s/%s", kind, namespace, name)
SeenKey(res) == <<KindOf(res), res.namespace, res.name>>

\* the items of a list call, in key order, gone: the deleted objects the API
\* server has removed by now
ListItems(kind, typed, gone) ==
    LET ids == IF kind = KindNamespace THEN <<<<KindNamespace, "", "a">>>>
               ELSE IF kind = KindPod THEN <<<<KindPod, "a", "p1">>, <<KindPod, "a", "p2">>>>
               ELSE IF kind = KindNode THEN <<<<KindNode, "", "n1">>>>
               ELSE <<>>
        present(id) == id \notin gone
        kept == SelectSeq(ids, present)
    IN [i \in 1..Len(kept) |-> ResourceOf(kept[i], typed)]

\* shouldProcessResourceType
shouldProcessResourceType(resourceType) ==
    IF stringInSlice(resourceType.Plural, cfg.ExcludeResources) THEN FALSE
    ELSE \E i \in 1..Len(cfg.IncludeResources) :
            cfg.IncludeResources[i] = all \/ cfg.IncludeResources[i] = resourceType.Plural

\* shouldProcessNamespace
shouldProcessNamespace(namespace) ==
    IF stringInSlice(namespace, cfg.ExcludeNamespaces) THEN FALSE
    ELSE \E i \in 1..Len(cfg.IncludeNamespaces) :
            cfg.IncludeNamespaces[i] = "all" \/ cfg.IncludeNamespaces[i] = namespace

numWorkers == IF cfg.Parallelism <= 0 THEN 1 ELSE cfg.Parallelism

\* the cluster and the Janitor at the start of a run
InitCluster ==
    /\ now = MaxTime
    /\ objects \in [Identities -> RunAnnotations]
    /\ objects[<<KindNode, "", "n1">>] = NoResource.ann
    /\ deleted = {}
    /\ catalog \in Catalogs
    /\ cpc = "start"
    /\ typeIdx = 1
    /\ resourceCh = <<>>
    /\ wpc = [w \in Workers |-> "off"]
    /\ wres = [w \in Workers |-> NoResource]
    /\ alreadySeen = {}
    /\ nsSeen = {}
    /\ counterMutex = 0
    /\ counter = [k \in CounterKeys |-> 0]
    /\ handled = [id \in Identities |-> 0]
    /\ processed = [id \in Identities |-> 0]
    /\ summary = NoSummary
    /\ IdleDecide /\ IdleMatch /\ IdleCall /\ IdleShut /\ IdleCtx

Init ==
    /\ \E dry \in BOOLEAN, rules \in {<<>>, <<RuleA>>}, p \in Workers, cluster \in BOOLEAN :
          cfg = Config(dry, 0, "", rules, p, cluster)
    /\ InitCluster

\* processResourcesInParallel up to close(resourceCh): nothing to do on an empty
\* list, else the workers are started and the channel is filled and closed
Dispatch(resources, waiting, after) ==
    IF Len(resources) = 0
    THEN /\ cpc' = after
         /\ UNCHANGED <<resourceCh, wpc>>
    ELSE /\ cpc' = waiting
         /\ resourceCh' = resources
         /\ wpc' = [w \in Workers |-> IF w <= numWorkers THEN "recv" ELSE "off"]

\* CleanUp: GetResourceTypes, its error ends the run
StartRun ==
    /\ cpc = "start"
    /\ \E ok \in BOOLEAN :
          /\ cpc' = IF ok THEN "nsPass" ELSE "failed"
          /\ summary' = IF ok THEN summary
                        ELSE [summary EXCEPT !.err = "failed to get resource types"]
    /\ UNCHANGED <<cfg, ctxVars, callVars, shutVars, now, decideVars, matchVars, objects, deleted, catalog, typeIdx,
                   resourceCh, wpc, wres, alreadySeen, nsSeen, counterMutex, counter,
                   handled, processed>>

\* cleanupNamespaces: typed list, filter, a pool with a map of its own
cleanupNamespaces ==
    /\ cpc = "nsPass"
    /\ nsSeen' = {}
    /\ IF ~stringInSlice(namespaces, cfg.IncludeResources)
          /\ ~stringInSlice(all, cfg.IncludeResources)
       THEN cpc' = "types" /\ UNCHANGED <<resourceCh, wpc, summary>>
       ELSE \E ok \in BOOLEAN :
              IF ~ok
              THEN /\ cpc' = "failed"
                   /\ summary' = [summary EXCEPT !.err = "failed to cleanup namespaces"]
                   /\ UNCHANGED <<resourceCh, wpc>>
              ELSE /\ LET items == ListItems(KindNamespace, TRUE, {})
                          keep(ns) == matchesResourceFilter(cfg, ns)
                      IN Dispatch(SelectSeq(items, keep), "waitNs", "types")
                   /\ UNCHANGED summary
    /\ UNCHANGED <<cfg, ctxVars, callVars, shutVars, now, decideVars, matchVars, objects, deleted, catalog, typeIdx,
                   wres, alreadySeen, counterMutex, counter, handled, processed>>

\* one turn of the loop of CleanUp: cleanupResourceType(resourceTypes[typeIdx]),
\* an error is logged and the loop goes on
cleanupResourceType ==
    /\ cpc = "types"
    /\ typeIdx <= Len(catalog)
    /\ typeIdx' = typeIdx + 1
    /\ LET resourceType == catalog[typeIdx]
       IN IF ~shouldProcessResourceType(resourceType)
          THEN UNCHANGED <<cpc, resourceCh, wpc>>
          ELSE \E nsOK \in BOOLEAN, listOK \in BOOLEAN, gone \in SUBSET deleted :
                 IF ~nsOK THEN UNCHANGED <<cpc, resourceCh, wpc>>
                 ELSE IF resourceType.Namespaced
                 THEN LET nss == ListItems(KindNamespace, TRUE, gone)
                          allResources ==
                              IF Len(nss) = 0 THEN <<>>
                              ELSE IF ~shouldProcessNamespace(nss[1].name) THEN <<>>
                              ELSE IF ~listOK THEN <<>>
                              ELSE ListItems(resourceType.Kind, FALSE, gone)
                      IN Dispatch(allResources, "waitType", "types")
                 ELSE IF cfg.IncludeClusterResources
                 THEN IF ~listOK THEN UNCHANGED <<cpc, resourceCh, wpc>>
                      ELSE Dispatch(ListItems(resourceType.Kind, FALSE, gone),
                                    "waitType", "types")
                 ELSE UNCHANGED <<cpc, resourceCh, wpc>>
    /\ UNCHANGED <<cfg, ctxVars, callVars, shutVars, now, decideVars, matchVars, objects, deleted, catalog, wres,
                   alreadySeen, nsSeen, counterMutex, counter, handled, processed,
                   summary>>

\* wg.Wait() returns: every worker of the pool has finished
Wait ==
    /\ cpc \in {"waitNs", "waitType"}
    /\ \A w \in Workers : wpc[w] \in {"off", "exit"}
    /\ cpc' = "types"
    /\ wpc' = [w \in Workers |-> "off"]
    /\ UNCHANGED <<cfg, ctxVars, callVars, shutVars, now, decideVars, matchVars, objects, deleted, catalog, typeIdx,
                   resourceCh, wres, alreadySeen, nsSeen, counterMutex, counter,
                   handled, processed, summary>>

\* logCleanupSummary, then CleanUp returns nil
logCleanupSummary ==
    /\ cpc = "types"
    /\ typeIdx > Len(catalog)
    /\ ~cfg.Quiet => counterMutex = 0
    /\ summary' = IF cfg.Quiet THEN summary
                  ELSE [summary EXCEPT !.emitted = TRUE, !.stats = counter]
    /\ cpc' = "done"
    /\ UNCHANGED <<cfg, ctxVars, callVars, shutVars, now, decideVars, matchVars, objects, deleted, catalog, typeIdx,
                   resourceCh, wpc, wres, alreadySeen, nsSeen, counterMutex, counter,
                   handled, processed>>

\* the map the pool of the current pass was given
SeenMap == IF cpc = "waitNs" THEN nsSeen ELSE alreadySeen

\* for resource := range resourceCh, an item is there
Receive(w) ==
    /\ wpc[w] = "recv"
    /\ resourceCh # <<>>
    /\ wres' = [wres EXCEPT ![w] = Head(resourceCh)]
    /\ resourceCh' = Tail(resourceCh)
    /\ wpc' = [wpc EXCEPT ![w] = "dedup"]
    /\ UNCHANGED <<cfg, ctxVars, callVars, shutVars, now, decideVars, matchVars, objects, deleted, catalog, cpc,
                   typeIdx, alreadySeen, nsSeen, counterMutex, counter, handled,
                   processed, summary>>

\* the range loop ends on the closed, drained channel; wg.Done()
WorkerDone(w) ==
    /\ wpc[w] = "recv"
    /\ resourceCh = <<>>
    /\ wpc' = [wpc EXCEPT ![w] = "exit"]
    /\ UNCHANGED <<cfg, ctxVars, callVars, shutVars, now, decideVars, matchVars, objects, deleted, catalog, cpc,
                   typeIdx, resourceCh, wres, alreadySeen, nsSeen, counterMutex, counter,
                   handled, processed, summary>>

\* the section under alreadySeenMutex: test and set the key
Dedup(w) ==
    /\ wpc[w] = "dedup"
    /\ LET key == SeenKey(wres[w])
           seen == key \in SeenMap
       IN /\ wpc' = [wpc EXCEPT ![w] = IF seen THEN "recv" ELSE "call"]
          /\ wres' = [wres EXCEPT ![w] = IF seen THEN NoResource ELSE @]
          /\ nsSeen' = IF cpc = "waitNs" THEN nsSeen \cup {key} ELSE nsSeen
          /\ alreadySeen' = IF cpc = "waitNs" THEN alreadySeen ELSE alreadySeen \cup {key}
    /\ UNCHANGED <<cfg, ctxVars, callVars, shutVars, now, decideVars, matchVars, objects, deleted, catalog, cpc,
                   typeIdx, resourceCh, counterMutex, counter, handled, processed,
                   summary>>

\* BeginHandle that does not wait for j.counterMutex
BeginHandle_noLock(w) ==
    /\ wpc[w] = "call"
    /\ handled' = [handled EXCEPT ![IdentityOf(wres[w])] = @ + 1]
    /\ IF ~matchesResourceFilter(cfg, wres[w])
       THEN /\ wpc' = [wpc EXCEPT ![w] = "recv"]
            /\ wres' = [wres EXCEPT ![w] = NoResource]
            /\ UNCHANGED <<counterMutex, counter, processed>>
       ELSE /\ counterMutex' = w
            /\ counter' = [counter EXCEPT ![ResourcesProcessed] = @ + 1]
            /\ processed' = [processed EXCEPT ![IdentityOf(wres[w])] = @ + 1]
            /\ wpc' = [wpc EXCEPT ![w] = "locked"]
            /\ UNCHANGED wres
    /\ UNCHANGED <<cfg, ctxVars, callVars, shutVars, now, decideVars, matchVars, objects, deleted,
                   catalog, cpc, typeIdx, resourceCh, alreadySeen, nsSeen, summary>>

\* handleResource up to the counter: the filter, counterMutex.Lock(),
\* counter["resources-processed"]++
BeginHandle(w) ==
    /\ wpc[w] = "call"
    /\ matchesResourceFilter(cfg, wres[w]) => counterMutex = 0
    /\ handled' = [handled EXCEPT ![IdentityOf(wres[w])] = @ + 1]
    /\ IF ~matchesResourceFilter(cfg, wres[w])
       THEN /\ wpc' = [wpc EXCEPT ![w] = "recv"]
            /\ wres' = [wres EXCEPT ![w] = NoResource]
            /\ UNCHANGED <<counterMutex, counter, processed>>
       ELSE /\ counterMutex' = w
            /\ counter' = [counter EXCEPT ![ResourcesProcessed] = @ + 1]
            /\ processed' = [processed EXCEPT ![IdentityOf(wres[w])] = @ + 1]
            /\ wpc' = [wpc EXCEPT ![w] = "locked"]
            /\ UNCHANGED wres
    /\ UNCHANGED <<cfg, ctxVars, callVars, shutVars, now, decideVars, matchVars, objects, deleted, catalog, cpc,
                   typeIdx, resourceCh, alreadySeen, nsSeen, summary>>

\* the objects the delete calls of a decision went through for
Deleted(r, res) ==
    IF \E i \in 1..Len(r.trace) :
          r.trace[i].call = "deleteResource" /\ r.trace[i].api /\ r.trace[i].ok
    THEN {IdentityOf(res)} ELSE {}

\* the rest of handleResource, counterMutex held: handleTTL, handleExpiry, the
\* deferred Unlock; a second Lock() of the held mutex parks the goroutine; the
\* hook, when handleRules calls it, reads or fills j.cache
Decide(w) ==
    /\ wpc[w] = "locked"
    /\ \E t \in ApiOutcomes, e \in ApiOutcomes :
       \E r \in {handleResource(cfg, wres[w], now, [ttl |-> t, expiry |-> e])} :
          LET inc == Tail(r.inc)
          IN /\ \E roll \in (IF r.hooked /\ cache = 0 THEN 1..DiceSides ELSE {1}) :
                   cache' = IF r.hooked THEN RandomDice(cache, roll).cache ELSE cache
             /\ counter' = [k \in CounterKeys |->
                              counter[k] + Cardinality({i \in 1..Len(inc) : inc[i] = k})]
             /\ deleted' = deleted \cup Deleted(r, wres[w])
             /\ counterMutex' = IF r.blocked THEN w ELSE 0
             /\ wpc' = [wpc EXCEPT ![w] = IF r.blocked THEN "parked" ELSE "recv"]
             /\ wres' = [wres EXCEPT ![w] = IF r.blocked THEN @ ELSE NoResource]
             /\ summary' = IF r.err /\ ~r.blocked
                           THEN [summary EXCEPT !.errors[IdentityOf(wres[w])] = @ + 1]
                           ELSE summary
    /\ UNCHANGED <<cfg, ctxVars, callVars, shutVars, now, dRes, dOut, dpc, run, sent, matchVars,
                   objects, catalog, cpc, typeIdx, resourceCh, alreadySeen, nsSeen, handled,
                   processed>>

Next ==
    \/ StartRun
    \/ cleanupNamespaces
    \/ cleanupResourceType
    \/ Wait
    \/ logCleanupSummary
    \/ \E w \in Workers : Receive(w)
    \/ \E w \in Workers : WorkerDone(w)
    \/ \E w \in Workers : Dedup(w)
    \/ \E w \in Workers : BeginHandle(w)
    \/ \E w \in Workers : Decide(w)

Spec == Init /\ [][Next]_vars

\* the run is over: CleanUp returned
Returned == cpc \in {"done", "failed"}

(***************************************************************************)
(* Runs of CleanUp under every include/exclude configuration               *)
(***************************************************************************)
NodesV1 ==
    [Group |-> "", Version |-> "v1", Kind |-> KindNode, Plural |-> nodes,
     Namespaced |-> FALSE]

\* annotation maps of the objects: an elapsed TTL, a malformed TTL
FilterAnnotations ==
    {a \in AnnotationMaps("") :
        a.keys = {TTLAnnotation} /\ a.ttl \in {<<"1", "s">>, <<"1", "x">>}}

InitFilter ==
    /\ \E p \in {1, MaxWorkers}, cluster \in BOOLEAN,
          incR \in {<<all>>, <<pods>>, <<namespaces>>},
          excR \in {<<>>, <<pods>>, <<namespaces>>},
          incN \in {<<"all">>, <<"a">>, <<"b">>},
          excN \in {<<>>, <<"a">>} :
          cfg = [Config(FALSE, 0, "", <<>>, p, cluster) EXCEPT
                    !.IncludeResources = incR, !.ExcludeResources = excR,
                    !.IncludeNamespaces = incN, !.ExcludeNamespaces = excN]
    /\ now = MaxTime
    /\ objects \in [Identities -> FilterAnnotations]
    /\ deleted = {}
    /\ catalog = <<NodesV1, PodsV1, NamespacesV1>>
    /\ cpc = "start"
    /\ typeIdx = 1
    /\ resourceCh = <<>>
    /\ wpc = [w \in Workers |-> "off"]
    /\ wres = [w \in Workers |-> NoResource]
    /\ alreadySeen = {}
    /\ nsSeen = {}
    /\ counterMutex = 0
    /\ counter = [k \in CounterKeys |-> 0]
    /\ handled = [id \in Identities |-> 0]
    /\ processed = [id \in Identities |-> 0]
    /\ summary = NoSummary
    /\ IdleDecide /\ IdleMatch /\ IdleCall /\ IdleShut /\ IdleCtx

SpecFilter == InitFilter /\ [][Next]_vars

\* the plural of the resource type an object is listed under
PluralOf(id) ==
    IF id[1] = KindPod THEN pods ELSE IF id[1] = KindNode THEN nodes ELSE namespaces

\* the object is excluded by the configuration
Excluded(id) ==
    \/ stringInSlice(PluralOf(id), cfg.ExcludeResources)
    \/ id[2] # "" /\ stringInSlice(id[2], cfg.ExcludeNamespaces)
    \/ id[1] = KindNamespace /\ stringInSlice(id[3], cfg.ExcludeNamespaces)

\* C14: exclusion takes precedence over inclusion: an object whose type plural is
\* in ExcludeResources, whose namespace is in ExcludeNamespaces, or a Namespace
\* whose name is in ExcludeNamespaces is never deleted, never counted in
\* resources-processed and never reaches a decision, whatever the include lists.
C14_ExclusionWins ==
    \A id \in Identities :
        Excluded(id) =>
            /\ processed[id] = 0
            /\ id \notin deleted
            /\ summary.errors[id] = 0

\* a finished run in which the pods are excluded and included at once, and
\* something else was deleted
C14_Witness ==
    /\ cpc = "done"
    /\ stringInSlice(pods, cfg.ExcludeResources) /\ stringInSlice(all, cfg.IncludeResources)
    /\ deleted # {}
    /\ \A id \in Identities : id[1] = KindPod => processed[id] = 0

\* the object passes the include lists
Included(id) ==
    /\ \E i \in 1..Len(cfg.IncludeResources) :
           cfg.IncludeResources[i] = all \/ cfg.IncludeResources[i] = PluralOf(id)
    /\ LET ns == IF id[1] = KindNamespace THEN id[3] ELSE id[2]
       IN \E i \in 1..Len(cfg.IncludeNamespaces) :
              cfg.IncludeNamespaces[i] = "all" \/ cfg.IncludeNamespaces[i] = ns

\* C15: with IncludeClusterResources = false no cluster-scoped object other than a
\* Namespace is passed to the decision engine, while every Namespace whose type
\* and name pass the include/exclude filters has been passed to it when the run
\* returns.
C15_NamespacesAlwaysEligible ==
    ~cfg.IncludeClusterResources =>
        /\ \A id \in Identities :
               (id[2] = "" /\ id[1] # KindNamespace) => handled[id] = 0 /\ processed[id] = 0
        /\ cpc = "done" =>
               \A id \in Identities :
                   (id[1] = KindNamespace /\ Included(id) /\ ~Excluded(id))
                      => processed[id] >= 1

C15_Witness ==
    /\ ~cfg.IncludeClusterResources
    /\ cpc = "done"
    /\ cfg.IncludeResources = <<namespaces>>
    /\ processed[<<KindNamespace, "", "a">>] = 1
    /\ handled[<<KindNode, "", "n1">>] = 0

\* the object a key of a seen map stands for
ObjectOfKey(key) ==
    IF key[1] = KindUnknown THEN <<KindNamespace, key[2], key[3]>> ELSE key

\* C16: a failed decision is logged by the worker and never aborts the batch: when
\* a pool has finished, its queue is drained and every resource taken from it was
\* handed to handleResource; a resource whose decision failed is decided once in
\* the run; CleanUp never returns the error of a decision.
C16_FailureDoesNotAbort ==
    /\ cpc \in {"types", "done"} =>
          /\ resourceCh = <<>>
          /\ \A key \in alreadySeen \cup nsSeen : handled[ObjectOfKey(key)] >= 1
    /\ \A id \in Identities :
          summary.errors[id] > 0 => (handled[id] = 1 /\ summary.errors[id] = 1)
    /\ (\E id \in Identities : summary.errors[id] > 0) => summary.err = ""

\* C17: a failed list call is logged and only the affected type or namespace is
\* skipped: CleanUp returns an error only when the discovery of the resource
\* types failed.
C17_ListFailureSkips ==
    (cpc = "failed" \/ summary.err # "") => summary.err = "failed to get resource types"

(***************************************************************************)
(* Functions called on their own: fn is the function, arg its argument,    *)
(* ret what it returned.                                                   *)
(***************************************************************************)
\* keys of resourceTypesMap: fmt.Sprintf("%s/%s", groupVersion, r.Name), held as
\* the pair of its two parts
EndpointsKey      == <<"v1", "endpoints">>
EndpointSlicesKey == <<"discovery.k8s.io/v1", "endpointslices">>

\* an APIResource of a group version as discovery serves it; sub: the name holds
\* a "/" (a subresource); deletable: "delete" is among its verbs
APIResource(gv, group, version, name, kind, sub, deletable) ==
    [GroupVersion |-> gv, Group |-> group, Version |-> version, Name |-> name,
     Kind |-> kind, Namespaced |-> TRUE, sub |-> sub, deletable |-> deletable]

\* what the discovery of a cluster may serve
Discoverable ==
    {APIResource("v1", "", "v1", "endpoints", "Endpoints", FALSE, d) : d \in BOOLEAN}
    \cup {APIResource("discovery.k8s.io/v1", "discovery.k8s.io", "v1",
                      "endpointslices", "EndpointSlice", FALSE, d) : d \in BOOLEAN}
    \cup {APIResource("discovery.k8s.io/v1beta1", "discovery.k8s.io", "v1beta1",
                      "endpointslices", "EndpointSlice", FALSE, TRUE),
          APIResource("v1", "", "v1", "pods", "Pod", FALSE, TRUE),
          APIResource("v1", "", "v1", "pods/status", "Pod", TRUE, TRUE),
          APIResource("apps/v1", "apps", "v1", "deployments", "Deployment", FALSE, TRUE)}

\* a discovery: every resource once, every group under its preferred version
Discoveries ==
    {d \in SUBSET Discoverable :
        \A a, b \in d :
            /\ (a.GroupVersion = b.GroupVersion /\ a.Name = b.Name) => a = b
            /\ a.Group = b.Group => a.Version = b.Version}

\* filterDeprecatedAPIs dropping v1/endpoints whatever else is served
filterDeprecatedAPIs_always(resourceTypesMap) ==
    [k \in DOMAIN resourceTypesMap \ {EndpointsKey} |-> resourceTypesMap[k]]

\* filterDeprecatedAPIs
filterDeprecatedAPIs(resourceTypesMap) ==
    IF EndpointSlicesKey \in DOMAIN resourceTypesMap
    THEN [k \in DOMAIN resourceTypesMap \ {EndpointsKey} |-> resourceTypesMap[k]]
    ELSE resourceTypesMap

\* GetResourceTypes on a discovery that answers: the map it builds, the map
\* after the filter, and the slice made of it (in any order: its elements)
GetResourceTypes(discovery) ==
    LET kept == {r \in discovery : ~r.sub /\ r.deletable}
        built ==
            [k \in {<<r.GroupVersion, r.Name>> : r \in kept} |->
                LET r == CHOOSE x \in kept : <<x.GroupVersion, x.Name>> = k
                IN [Group |-> r.Group, Version |-> r.Version, Kind |-> r.Kind,
                    Plural |-> r.Name, Namespaced |-> r.Namespaced]]
        filtered == filterDeprecatedAPIs(built)
    IN [built |-> built, filtered |-> filtered,
        resourceTypes |-> {filtered[k] : k \in DOMAIN filtered}]

\* the decimal digits, by value
DigitChar == <<"0", "1", "2", "3", "4", "5", "6", "7", "8", "9">>

RECURSIVE Itoa(_)
\* fmt.Sprintf("%d", value) of a value that is not negative
Itoa(value) ==
    IF value < 10 THEN <<DigitChar[value + 1]>>
    ELSE Itoa(value \div 10) \o <<DigitChar[(value % 10) + 1]>>

\* the units of FormatDuration, largest to smallest, in seconds
units ==
    <<[d |-> 7 * 24 * 3600, s |-> "w"], [d |-> 24 * 3600, s |-> "d"],
      [d |-> 3600, s |-> "h"], [d |-> 60, s |-> "m"], [d |-> 1, s |-> "s"]>>

RECURSIVE formatUnits_noRemainder(_, _)
\* the loop of FormatDuration without the reduction of remaining
formatUnits_noRemainder(remaining, i) ==
    IF i > Len(units) THEN <<>>
    ELSE LET value == remaining \div units[i].d
         IN IF value > 0
            THEN Itoa(value) \o <<units[i].s>> \o formatUnits_noRemainder(remaining, i + 1)
            ELSE formatUnits_noRemainder(remaining, i + 1)

RECURSIVE formatUnits(_, _)
\* the loop of FormatDuration over units, from unit i on: what it adds to result
formatUnits(remaining, i) ==
    IF i > Len(units) THEN <<>>
    ELSE LET value == remaining \div units[i].d
         IN IF value > 0
            THEN Itoa(value) \o <<units[i].s>>
                   \o formatUnits(remaining % units[i].d, i + 1)
            ELSE formatUnits(remaining, i + 1)

\* FormatDuration that does not reduce remaining
FormatDuration_noRemainder(d) ==
    LET result == formatUnits_noRemainder(IF d < 0 THEN 0 ELSE d, 1)
        text == IF result = <<>> THEN <<"0", "s">> ELSE result
    IN IF d < 0 THEN <<"-">> \o text ELSE text

\* FormatDuration of a duration of whole seconds; the one negative duration is
\* the sentinel of ParseTTL, a nanosecond, whose magnitude holds no second
FormatDuration(d) ==
    LET result == formatUnits(IF d < 0 THEN 0 ELSE d, 1)
        text == IF result = <<>> THEN <<"0", "s">> ELSE result
    IN IF d < 0 THEN <<"-">> \o text ELSE text

LowerLetters ==
    {"a", "b", "c", "d", "e", "f", "g", "h", "i", "j", "k", "l", "m", "n", "o", "p",
     "q", "r", "s", "t", "u", "v", "w", "x", "y", "z"}

\* ruleIDPattern = ^[a-z][a-z0-9-]*$
ruleIDPatternMatches(id) ==
    /\ Len(id) >= 1
    /\ id[1] \in LowerLetters
    /\ \A i \in 2..Len(id) : id[i] \in LowerLetters \cup Digits \cup {"-"}

\* jmespath.Compile, a library outside the repository: the expressions of the
\* model compile, every other text is refused
Compiles(expr) == expr \in Exprs \cup DOMAIN ContextField

\* Rule.ValidateAndCompile: the error it returns, "" for nil
ValidateAndCompile(r) ==
    IF ~ruleIDPatternMatches(r.ID) THEN "invalid rule ID"
    ELSE IF ParseTTL(r.TTL).err THEN "invalid TTL"
    ELSE IF ~Compiles(r.JMESPath) THEN "invalid JMESPath expression"
    ELSE ""

RECURSIVE validRules(_)
\* the rules of a list that pass ValidateAndCompile
validRules(rules) ==
    IF rules = <<>> THEN <<>>
    ELSE IF ValidateAndCompile(rules[1]) = "" THEN <<rules[1]>> \o validRules(Tail(rules))
    ELSE validRules(Tail(rules))

\* LoadRules leaving out the rules that fail validation
LoadRules_skipInvalid(file) ==
    IF ~file.readable
    THEN [err |-> "failed to read rules file", nil |-> TRUE, rules |-> <<>>]
    ELSE IF ~file.parsable
    THEN [err |-> "failed to parse rules file", nil |-> TRUE, rules |-> <<>>]
    ELSE [err |-> "", nil |-> FALSE, rules |-> validRules(file.rules)]

\* LoadRules(filename): [err, nil, rules]; file: whether os.ReadFile and
\* yaml.Unmarshal succeed on it, and the rules the document holds
LoadRules(file) ==
    IF ~file.readable
    THEN [err |-> "failed to read rules file", nil |-> TRUE, rules |-> <<>>]
    ELSE IF ~file.parsable
    THEN [err |-> "failed to parse rules file", nil |-> TRUE, rules |-> <<>>]
    ELSE IF \E i \in 1..Len(file.rules) : ValidateAndCompile(file.rules[i]) # ""
    THEN [err |-> "invalid rule", nil |-> TRUE, rules |-> <<>>]
    ELSE [err |-> "", nil |-> FALSE, rules |-> file.rules]

\* the entries a rules document may hold
RuleIDs == {<<"a">>, <<"a", "-", "1">>, <<"A">>, <<"1", "a">>, <<>>}
RuleEntries ==
    [ID : RuleIDs, Resources : {<<star>>}, JMESPath : {"e1", "[invalid"},
     TTL : {<<"1", "s">>, <<"7", "x">>, TTLUnlimited}]

\* rules files: unreadable, no YAML, or a document of at most MaxRules entries
RuleFiles ==
    {[readable |-> FALSE, parsable |-> FALSE, rules |-> <<>>],
     [readable |-> TRUE, parsable |-> FALSE, rules |-> <<>>]}
    \cup UNION {[readable : {TRUE}, parsable : {TRUE}, rules : [1..n -> RuleEntries]]
                  : n \in 0..MaxRules}

\* the longest TTL string given to ParseTTL
MaxTTLLen == 3

\* the characters of the TTL strings
TTLChars == {"0", "1", "6", "9", "s", "m", "h", "d", "w", "x"}

\* TTL strings: every string of TTLChars up to MaxTTLLen, and the sentinel
TTLStrings ==
    UNION {[1..n -> TTLChars] : n \in 0..MaxTTLLen} \cup {TTLUnlimited}

\* the digits a long TTL is written with
MaxDigits == 6

\* long TTLs: up to MaxDigits digits and a unit
LongTTLs ==
    {n \o <<u>> : n \in UNION {[1..k -> {"0", "1", "2", "9"}] : k \in 1..MaxDigits},
                  u \in DOMAIN TimeUnit}

InitCalls ==
    /\ \/ fn = "GetResourceTypes" /\ arg \in Discoveries
       \/ fn = "ParseTTL" /\ arg \in TTLStrings
       \/ fn = "ParseTTL64" /\ arg \in LongTTLs \cup {TTLUnlimited}
       \/ fn = "FormatDuration" /\ arg \in TTLStrings
       \/ fn = "LoadRules" /\ arg \in RuleFiles
    /\ ret = <<>>
    /\ fpc = "ready"
    /\ cfg = Config(FALSE, 0, "", <<>>, 1, FALSE)
    /\ now = 0
    /\ IdleDecide /\ IdleMatch /\ IdleRun /\ IdleShut

CallGetResourceTypes ==
    /\ fpc = "ready" /\ fn = "GetResourceTypes"
    /\ ret' = GetResourceTypes(arg)
    /\ fpc' = "done"
    /\ UNCHANGED <<cfg, now, decideVars, matchVars, runVars, ctxVars, fn, arg, shutVars>>

CallParseTTL ==
    /\ fpc = "ready" /\ fn = "ParseTTL"
    /\ ret' = ParseTTL(arg)
    /\ fpc' = "done"
    /\ UNCHANGED <<cfg, now, decideVars, matchVars, runVars, ctxVars, fn, arg, shutVars>>

\* ParseTTL, its result at the width of time.Duration
CallParseTTL64 ==
    /\ fpc = "ready" /\ fn = "ParseTTL64"
    /\ ret' = ParseTTL64(arg)
    /\ fpc' = "done"
    /\ UNCHANGED <<cfg, now, decideVars, matchVars, runVars, ctxVars, fn, arg, shutVars>>

\* FormatDuration on what ParseTTL returns for a string it accepts
CallFormatDuration ==
    /\ fpc = "ready" /\ fn = "FormatDuration"
    /\ ~ParseTTL(arg).err
    /\ ret' = [d |-> ParseTTL(arg).d, text |-> FormatDuration(ParseTTL(arg).d)]
    /\ fpc' = "done"
    /\ UNCHANGED <<cfg, now, decideVars, matchVars, runVars, ctxVars, fn, arg, shutVars>>

CallLoadRules ==
    /\ fpc = "ready" /\ fn = "LoadRules"
    /\ ret' = LoadRules(arg)
    /\ fpc' = "done"
    /\ UNCHANGED <<cfg, now, decideVars, matchVars, runVars, ctxVars, fn, arg, shutVars>>

NextCalls ==
    \/ CallGetResourceTypes
    \/ CallParseTTL
    \/ CallParseTTL64
    \/ CallFormatDuration
    \/ CallLoadRules

SpecCalls == InitCalls /\ [][NextCalls]_vars

\* fn returned
Called(f) == fpc = "done" /\ fn = f

\* C21: the deprecation filter removes the entry v1/endpoints if and only if
\* discovery.k8s.io/v1/endpointslices is present and leaves every other entry of
\* the type map unchanged; the list GetResourceTypes returns never holds both
\* the deprecated type and its successor.
C21_DeprecationFilter ==
    Called("GetResourceTypes") =>
        /\ DOMAIN ret.filtered \subseteq DOMAIN ret.built
        /\ \A k \in DOMAIN ret.built :
              IF k = EndpointsKey
              THEN (k \notin DOMAIN ret.filtered) <=> (EndpointSlicesKey \in DOMAIN ret.built)
              ELSE k \in DOMAIN ret.filtered
        /\ \A k \in DOMAIN ret.filtered : ret.filtered[k] = ret.built[k]
        /\ ~(/\ \E t \in ret.resourceTypes :
                    t.Group = "" /\ t.Version = "v1" /\ t.Plural = "endpoints"
             /\ \E t \in ret.resourceTypes :
                    t.Group = "discovery.k8s.io" /\ t.Version = "v1"
                      /\ t.Plural = "endpointslices")

\* discovery served both types and the deprecated one was dropped
C21_Witness ==
    /\ Called("GetResourceTypes")
    /\ {EndpointsKey, EndpointSlicesKey} \subseteq DOMAIN ret.built
    /\ EndpointsKey \notin DOMAIN ret.filtered
    /\ EndpointSlicesKey \in DOMAIN ret.filtered

\* the lengths of the units: a minute is 60 seconds, an hour 60 minutes, a day 24
\* hours, a week 7 days
UnitLength ==
    [s |-> 1, m |-> 60, h |-> 60 * 60, d |-> 24 * 60 * 60, w |-> 7 * 24 * 60 * 60]

\* the number a string of decimal digits denotes
DecimalValue(str) ==
    LET pow[k \in 0..Len(str)] == IF k = 0 THEN 1 ELSE 10 * pow[k - 1]
        sum[k \in 0..Len(str)] ==
            IF k = 0 THEN 0
            ELSE sum[k - 1] + (CHOOSE v \in 0..9 : DigitChar[v + 1] = str[k]) * pow[Len(str) - k]
    IN sum[Len(str)]

\* str is <decimal integer><unit>
IsNumberUnit(str) ==
    /\ Len(str) >= 2
    /\ \A i \in 1..(Len(str) - 1) : str[i] \in {DigitChar[v] : v \in 1..10}
    /\ str[Len(str)] \in {"s", "m", "h", "d", "w"}

\* the duration <decimal integer><unit> denotes
NumberUnitValue(str) ==
    DecimalValue(SubSeq(str, 1, Len(str) - 1)) * UnitLength[str[Len(str)]]

RECURSIVE Components(_)
\* a rendering cut after every character that is no digit
Components(str) ==
    IF str = <<>> THEN <<>>
    ELSE LET ends == {i \in 1..Len(str) : str[i] \notin {DigitChar[v] : v \in 1..10}}
         IN IF ends = {} THEN <<str>>
            ELSE LET i == CHOOSE e \in ends : \A o \in ends : e <= o
                 IN <<SubSeq(str, 1, i)>> \o Components(SubSeq(str, i + 1, Len(str)))

\* the place of a unit in the order w, d, h, m, s
UnitRank == [w |-> 1, d |-> 2, h |-> 3, m |-> 4, s |-> 5]

RECURSIVE SumFrom(_, _)
\* the sum of what ParseTTL returns for the components from the i-th on
SumFrom(c, i) ==
    IF i > Len(c) THEN 0 ELSE ParseTTL(c[i]).d + SumFrom(c, i + 1)

ValidEntry(r) ==
    /\ r.ID # <<>>
    /\ r.ID[1] \in LowerLetters
    /\ \A i \in 2..Len(r.ID) : r.ID[i] \in LowerLetters \cup {DigitChar[v] : v \in 1..10} \cup {"-"}
    /\ (r.TTL = TTLUnlimited \/ IsNumberUnit(r.TTL))
    /\ r.JMESPath # "[invalid"

\* C24: validation of a rule fails when the id does not match ^[a-z][a-z0-9-]*$,
\* when the TTL does not parse or when the predicate does not compile, and
\* succeeds otherwise; LoadRules is all-or-nothing: with one invalid rule, or a
\* file that cannot be read or parsed, it returns an error and no rule list,
\* otherwise the rules of the document in their order.
C24_LoadRules ==
    Called("LoadRules") =>
        /\ \A i \in 1..Len(arg.rules) :
              ValidateAndCompile(arg.rules[i]) = "" <=> ValidEntry(arg.rules[i])
        /\ ret.err = "" <=>
              (arg.readable /\ arg.parsable
                 /\ \A i \in 1..Len(arg.rules) : ValidEntry(arg.rules[i]))
        /\ ret.err # "" => (ret.nil /\ ret.rules = <<>>)
        /\ ret.err = "" => (~ret.nil /\ ret.rules = arg.rules)

\* a document of a valid and an invalid rule was refused as a whole
C24_Witness ==
    /\ Called("LoadRules")
    /\ Len(arg.rules) = 2
    /\ ValidEntry(arg.rules[1]) /\ ~ValidEntry(arg.rules[2])
    /\ ret.err # "" /\ ret.nil

(***************************************************************************)
(* A run of CleanUp whose ctx is cancelled while it is under way.  No step *)
(* of CleanUp, cleanupResourceType or the workers reads ctx.Done() or      *)
(* ctx.Err(): ctx only travels on to the calls of the clients, whose       *)
(* outcomes are open here as everywhere.                                   *)
(***************************************************************************)
\* a worker holds a resource it took from the channel
Holding(w) == wpc[w] \in {"dedup", "call", "locked", "parked"}

\* the caller's cancel() of the ctx given to CleanUp
Cancel ==
    /\ ~ctxDone
    /\ cpc \notin {"off", "done", "failed"}
    /\ ctxDone' = TRUE
    /\ dequeued' = {IdentityOf(wres[w]) : w \in {v \in Workers : Holding(v)}}
    /\ UNCHANGED <<cfg, now, decideVars, matchVars, runVars, callVars, shutVars>>

InitCancel ==
    /\ Init
    /\ cfg.Rules = <<>>
    /\ cfg.Parallelism = MaxWorkers

NextCancel ==
    \/ Next
    \/ Cancel

SpecCancel == InitCancel /\ [][NextCancel]_vars

\* C25: once the ctx of the run is cancelled no new work is dispatched: no
\* decision is started for a resource that had not been taken from the queue
\* when the cancellation came, and no further resource type is listed.
C25_NoDispatchAfterCancel ==
    [][ctxDone =>
          /\ \A w \in Workers :
                (wpc[w] = "call" /\ wpc'[w] = "locked")
                    => IdentityOf(wres[w]) \in dequeued
          /\ typeIdx' = typeIdx]_vars

(***************************************************************************)
(* Package shutdown under main: the goroutine handleSignals, the goroutine *)
(* of ShutdownWithContext that cancels the ctx, and main with its deferred  *)
(* SetSafeToExit(true).  CleanUp is one step here, its result open; the     *)
(* run itself is Spec.  The process is over once os.Exit was called, main   *)
(* returned or a goroutine panicked.                                        *)
(***************************************************************************)
\* config.Once on top of the configuration of the janitor
MainConfig(once) == [Once |-> once] @@ Config(FALSE, 0, "", <<>>, 1, FALSE)

Exited ==
    \/ mainpc \in {"exit0", "exit1", "returned", "panic"}
    \/ sigpc \in {"exit0", "panic"}

\* close(gs.done): closing a closed channel panics
closeDone(pc) == IF gs.done THEN "panic" ELSE pc

IsSafeToExit_always(g) == TRUE

\* gs.IsSafeToExit()
IsSafeToExit(g) == g.safeToExit

InitShutdown ==
    /\ \E once \in BOOLEAN : cfg = MainConfig(once)
    /\ now = 0
    /\ IdleDecide /\ IdleMatch /\ IdleRun /\ IdleCall
    /\ gs = [shutdownNow |-> FALSE, safeToExit |-> FALSE, done |-> FALSE, mu |-> "",
             sigChan |-> 0]
    /\ sigpc = "wait"
    /\ mainpc = "start"

\* SIGINT or SIGTERM arrives: signal.Notify puts it into sigChan, which holds
\* one signal; a signal that finds the buffer full is dropped
Signal ==
    /\ ~Exited /\ gs.sigChan = 0
    /\ gs' = [gs EXCEPT !.sigChan = 1]
    /\ UNCHANGED <<cfg, now, decideVars, matchVars, runVars, ctxVars, callVars, sigpc, mainpc>>

\* handleSignals: <-sigChan
handleSignals_receive ==
    /\ ~Exited /\ sigpc = "wait" /\ gs.sigChan = 1
    /\ gs' = [gs EXCEPT !.sigChan = 0]
    /\ sigpc' = "lock"
    /\ UNCHANGED <<cfg, now, decideVars, matchVars, runVars, ctxVars, callVars, mainpc>>

\* handleSignals: gs.mu.Lock(); gs.shutdownNow = true; gs.mu.Unlock()
handleSignals_record ==
    /\ ~Exited /\ sigpc = "lock" /\ gs.mu = ""
    /\ gs' = [gs EXCEPT !.shutdownNow = TRUE]
    /\ sigpc' = "check"
    /\ UNCHANGED <<cfg, now, decideVars, matchVars, runVars, ctxVars, callVars, mainpc>>

\* handleSignals: if gs.IsSafeToExit() (a read lock)
handleSignals_check ==
    /\ ~Exited /\ sigpc = "check" /\ gs.mu = ""
    /\ sigpc' = IF IsSafeToExit(gs) THEN "close" ELSE "end"
    /\ UNCHANGED <<cfg, now, decideVars, matchVars, runVars, ctxVars, callVars, gs, mainpc>>

\* handleSignals: close(gs.done)
handleSignals_close ==
    /\ ~Exited /\ sigpc = "close"
    /\ gs' = [gs EXCEPT !.done = TRUE]
    /\ sigpc' = closeDone("exit")
    /\ UNCHANGED <<cfg, now, decideVars, matchVars, runVars, ctxVars, callVars, mainpc>>

\* handleSignals: os.Exit(0)
handleSignals_exit ==
    /\ ~Exited /\ sigpc = "exit"
    /\ sigpc' = "exit0"
    /\ UNCHANGED <<cfg, now, decideVars, matchVars, runVars, ctxVars, callVars, gs, mainpc>>

\* ShutdownWithContext's goroutine: <-gs.Done(); cancel()
cancelOnDone ==
    /\ ~Exited /\ gs.done /\ ~ctxDone
    /\ ctxDone' = TRUE
    /\ UNCHANGED <<cfg, now, decideVars, matchVars, objects, deleted, catalog, cpc, typeIdx,
                   resourceCh, wpc, wres, alreadySeen, nsSeen, counterMutex, counter, handled,
                   processed, summary, dequeued, callVars, shutVars>>

\* main: if config.Once { ... } else the ticker loop
MainStart ==
    /\ ~Exited /\ mainpc = "start"
    /\ mainpc' = IF cfg.Once THEN "cleanup" ELSE "select"
    /\ UNCHANGED <<cfg, now, decideVars, matchVars, runVars, ctxVars, callVars, gs, sigpc>>

\* main: select { case <-ctx.Done(): return; case <-ticker.C: CleanUp }
MainSelect ==
    /\ ~Exited /\ mainpc = "select"
    /\ \/ ctxDone /\ mainpc' = "defer"
       \/ mainpc' = "cleanup"
    /\ UNCHANGED <<cfg, now, decideVars, matchVars, runVars, ctxVars, callVars, gs, sigpc>>

\* main: j.CleanUp(ctx) returns; under --once an error is os.Exit(1), which
\* skips the deferred call. The ticker loop has no last run: run counts the
\* runs up to MaxRuns and stays there
MainCleanUp ==
    /\ ~Exited /\ mainpc = "cleanup"
    /\ run' = IF run < MaxRuns THEN run + 1 ELSE run
    /\ \E err \in BOOLEAN :
          mainpc' = IF ~cfg.Once THEN "select" ELSE IF err THEN "exit1" ELSE "defer"
    /\ UNCHANGED <<cfg, now, dRes, dOut, dpc, sent, cache, matchVars, runVars, ctxVars, callVars, gs,
                   sigpc>>

\* the deferred gs.SetSafeToExit(true), up to its test: gs.mu.Lock();
\* gs.safeToExit = safe; if gs.shutdownNow && safe
SetSafeToExit ==
    /\ ~Exited /\ mainpc = "defer" /\ gs.mu = ""
    /\ gs' = [gs EXCEPT !.mu = "main", !.safeToExit = TRUE]
    /\ mainpc' = IF gs.shutdownNow THEN "close" ELSE "unlock"
    /\ UNCHANGED <<cfg, now, decideVars, matchVars, runVars, ctxVars, callVars, sigpc>>

\* SetSafeToExit: close(gs.done), the lock held
SetSafeToExit_close ==
    /\ ~Exited /\ mainpc = "close"
    /\ gs' = [gs EXCEPT !.done = TRUE]
    /\ mainpc' = closeDone("exit")
    /\ UNCHANGED <<cfg, now, decideVars, matchVars, runVars, ctxVars, callVars, sigpc>>

\* SetSafeToExit: os.Exit(0), the lock held
SetSafeToExit_exit ==
    /\ ~Exited /\ mainpc = "exit"
    /\ mainpc' = "exit0"
    /\ UNCHANGED <<cfg, now, decideVars, matchVars, runVars, ctxVars, callVars, gs, sigpc>>

\* SetSafeToExit: gs.mu.Unlock()
SetSafeToExit_unlock ==
    /\ ~Exited /\ mainpc = "unlock"
    /\ gs' = [gs EXCEPT !.mu = ""]
    /\ mainpc' = "return"
    /\ UNCHANGED <<cfg, now, decideVars, matchVars, runVars, ctxVars, callVars, sigpc>>

\* main returns after its deferred calls: the process ends
MainReturn ==
    /\ ~Exited /\ mainpc = "return"
    /\ mainpc' = "returned"
    /\ UNCHANGED <<cfg, now, decideVars, matchVars, runVars, ctxVars, callVars, gs, sigpc>>

NextShutdown ==
    \/ Signal
    \/ handleSignals_receive
    \/ handleSignals_record
    \/ handleSignals_check
    \/ handleSignals_close
    \/ handleSignals_exit
    \/ cancelOnDone
    \/ MainStart
    \/ MainSelect
    \/ MainCleanUp
    \/ SetSafeToExit
    \/ SetSafeToExit_close
    \/ SetSafeToExit_exit
    \/ SetSafeToExit_unlock
    \/ MainReturn

SpecShutdown == InitShutdown /\ [][NextShutdown]_vars

\* the steps of the goroutine of handleSignals
handleSignalsSteps ==
    \/ handleSignals_receive
    \/ handleSignals_record
    \/ handleSignals_check
    \/ handleSignals_close
    \/ handleSignals_exit

\* the steps of the goroutine of main; the ticker of the periodic loop keeps
\* firing
MainSteps ==
    \/ MainStart
    \/ MainSelect
    \/ MainCleanUp
    \/ SetSafeToExit
    \/ SetSafeToExit_close
    \/ SetSafeToExit_exit
    \/ SetSafeToExit_unlock
    \/ MainReturn

\* the same program under the scheduler of the Go runtime: a goroutine that
\* can take a step is not left waiting for ever. Nothing obliges a signal to
\* arrive.
SpecShutdownFair ==
    /\ InitShutdown /\ [][NextShutdown]_vars
    /\ WF_vars(handleSignalsSteps)
    /\ WF_vars(MainSteps)
    /\ WF_vars(cancelOnDone)

\* A GracefulShutdown whose owner calls SetSafeToExit any number of times,
\* with true or false, before and after the signal: mainpc is the position
\* of the owner, "idle" between two calls
InitOwner ==
    /\ cfg = MainConfig(FALSE)
    /\ now = 0
    /\ IdleDecide /\ IdleMatch /\ IdleRun /\ IdleCall
    /\ gs = [shutdownNow |-> FALSE, safeToExit |-> FALSE, done |-> FALSE, mu |-> "",
             sigChan |-> 0]
    /\ sigpc = "wait"
    /\ mainpc = "idle"

\* gs.SetSafeToExit(safe), up to its test: gs.mu.Lock(); gs.safeToExit = safe;
\* if gs.shutdownNow && safe
OwnerSetSafeToExit ==
    /\ ~Exited /\ mainpc = "idle" /\ gs.mu = ""
    /\ \E safe \in BOOLEAN :
          /\ gs' = [gs EXCEPT !.mu = "main", !.safeToExit = safe]
          /\ mainpc' = IF gs.shutdownNow /\ safe THEN "close" ELSE "unlocking"
    /\ UNCHANGED <<cfg, now, decideVars, matchVars, runVars, ctxVars, callVars, sigpc>>

\* SetSafeToExit: gs.mu.Unlock(); the call returns to the owner
OwnerSetSafeToExit_unlock ==
    /\ ~Exited /\ mainpc = "unlocking"
    /\ gs' = [gs EXCEPT !.mu = ""]
    /\ mainpc' = "idle"
    /\ UNCHANGED <<cfg, now, decideVars, matchVars, runVars, ctxVars, callVars, sigpc>>

NextOwner ==
    \/ Signal
    \/ handleSignals_receive
    \/ handleSignals_record
    \/ handleSignals_check
    \/ handleSignals_close
    \/ handleSignals_exit
    \/ cancelOnDone
    \/ OwnerSetSafeToExit
    \/ OwnerSetSafeToExit_unlock
    \/ SetSafeToExit_close
    \/ SetSafeToExit_exit

SpecOwner == InitOwner /\ [][NextOwner]_vars

\* C26: a GracefulShutdown starts with safeToExit false; the done channel is
\* closed, and the process exits through it, only when a termination signal
\* was received (shutdownNow) and safeToExit is true; a signal that arrives
\* while the cleanup is active only records shutdownNow.
C26_SafeToExitGate ==
    /\ mainpc = "start" => ~gs.safeToExit
    /\ gs.done => gs.shutdownNow /\ gs.safeToExit
    /\ (mainpc = "exit0" \/ sigpc = "exit0") => gs.done
    /\ mainpc = "cleanup" => ~gs.safeToExit /\ ~gs.done /\ sigpc \notin {"close", "exit", "exit0"}

\* the signal came during the cleanup and was only recorded; the exit happened
\* when main declared it safe
C26_Witness ==
    /\ sigpc = "end" /\ gs.shutdownNow
    /\ gs.done /\ mainpc = "exit0" /\ run > 0

(***************************************************************************)
(* Further claims about the decision engine (checked under SpecDecide)     *)
(***************************************************************************)
\* C27: if the first rule that matches an object has the TTL "forever", the
\* object is exempt in that pass: no later rule of the list is evaluated or
\* applied to it, and the TTL/rule branch makes no call at all (no event, no
\* delete, no notification).
C27_FirstMatchForeverExempts ==
    (Decided /\ ~HasTTLAnnotation /\ MatchingRules # {}
        /\ cfg.Rules[FirstMatch].TTL = TTLUnlimited) =>
        /\ \A k \in 1..Len(dOut.evaluated) : dOut.evaluated[k] <= FirstMatch
        /\ \A k \in 1..Len(dOut.applied) : dOut.applied[k] = FirstMatch
        /\ \A i \in 1..Len(dOut.trace) : dOut.trace[i].branch = "expiry"

\* the delete notifications of the TTL/rule branch: its DeleteNotification events
Notifications ==
    {i \in TTLBranchCalls("createEvent") : dOut.trace[i].reason = "DeleteNotification"}

\* C28: in a non-dry-run pass at time now, for an object with a finite TTL whose
\* expiresAt lies in the future, a notification is sent if and only if the
\* notify-ahead window w is > 0, now >= expiresAt - w and the object does not
\* carry the notified marker; after sending, the marker is set on the object;
\* with w = 0 no notification is ever sent, and an expired object is deleted
\* without being notified in that pass.
C28_NotifyFromWindowStart ==
    (Decided /\ ~cfg.DryRun /\ Acted /\ ~ActedTTL.err /\ ActedTTL.d >= 0) =>
        LET w == cfg.DeleteNotification
        IN /\ now < ActedExpiresAt =>
                 ((Notifications # {})
                     <=> (w > 0 /\ now >= ActedExpiresAt - w /\ ~wasNotified(dRes)))
           /\ (\E i \in Notifications : dOut.trace[i].ok) => wasNotified(dOut.res)
           /\ w = 0 => Notifications = {}
           /\ now > ActedExpiresAt => Notifications = {}

\* C28 (amended): in a non-dry-run pass at time now, when the TTL/rule branch
\* acts on a finite TTL and now is not later than expiresAt, it attempts the
\* notification event if and only if w > 0, now > expiresAt - w (strictly
\* later) and the object does not carry the notified marker; once that event is
\* created the marker is set on the object the pass holds; with w = 0 no
\* notification is sent, and the branch sends none for an object it treats as
\* expired (now > expiresAt).
C28_NotifyInsideWindow ==
    (Decided /\ ~cfg.DryRun /\ Acted /\ ~ActedTTL.err /\ ActedTTL.d >= 0) =>
        LET w == cfg.DeleteNotification
        IN /\ now <= ActedExpiresAt =>
                 ((Notifications # {})
                     <=> (w > 0 /\ now > ActedExpiresAt - w /\ ~wasNotified(dRes)))
           /\ (\E i \in Notifications : dOut.trace[i].ok) => wasNotified(dOut.res)
           /\ w = 0 => Notifications = {}
           /\ now > ActedExpiresAt => Notifications = {}

\* the start of the window: a pass at the very instant expiresAt - w sends nothing
C28_Witness ==
    /\ Decided /\ ~cfg.DryRun /\ HasTTLAnnotation /\ ~ActedTTL.err /\ ActedTTL.d >= 0
    /\ cfg.DeleteNotification > 0 /\ ~wasNotified(dRes)
    /\ now = ActedExpiresAt - cfg.DeleteNotification
    /\ Notifications = {}

(***************************************************************************)
(* Further claims about the worker pool (checked under Spec)               *)
(***************************************************************************)
\* C29: the workers consume concurrently: while one worker is inside the
\* decision for a resource (blocked in an event, delete or wait-after-delete
\* call), another worker that holds a different resource can start its decision.
C29_WorkersDecideConcurrently ==
    \A w1 \in Workers, w2 \in Workers :
        (/\ w1 # w2
         /\ wpc[w1] = "locked" /\ wpc[w2] = "call"
         /\ IdentityOf(wres[w1]) # IdentityOf(wres[w2]))
            => ENABLED BeginHandle(w2)

(***************************************************************************)
(* Runs of CleanUp with the hook RandomDice configured                     *)
(***************************************************************************)
InitHook ==
    /\ \E dry \in BOOLEAN, p \in Workers :
          cfg = [Config(dry, 0, "", <<RuleA>>, p, FALSE) EXCEPT !.ResourceContextHook = TRUE]
    /\ InitCluster

SpecHook == InitHook /\ [][Next]_vars

\* a worker is inside handleTTL/handleExpiry, where the hook touches j.cache
InDecision(w) == wpc[w] \in {"locked", "parked"}

\* the decision a worker is in reaches the hook
CallsHook(w) ==
    \E t \in ApiOutcomes, e \in ApiOutcomes :
        handleResource(cfg, wres[w], now, [ttl |-> t, expiry |-> e]).hooked

\* C30: within one run, for any number of workers and any interleaving, the
\* memoizing hook computes and inserts its value at most once (a value in the
\* cache is never replaced), every resource evaluated afterwards gets that same
\* value from the hook, and no two workers are at the cache at the same time.
C30_ReadOrInsert ==
    [][/\ cache # 0 => cache' = cache
       /\ cache # 0 => \A roll \in 1..DiceSides : RandomDice(cache, roll).random_dice = cache
       /\ Cardinality({w \in Workers : InDecision(w)}) <= 1]_vars

\* the value is cached, a worker is in a decision that calls the hook again and
\* another worker stands ready with its own resource
C30_Witness ==
    /\ cache # 0
    /\ \E w1 \in Workers, w2 \in Workers :
          /\ wpc[w1] = "locked" /\ CallsHook(w1)
          /\ wpc[w2] = "call" /\ matchesResourceFilter(cfg, wres[w2])

(***************************************************************************)
(* Claims about the counters of a run (checked under Spec)                 *)
(***************************************************************************)
RECURSIVE SumOver(_, _)
\* the sum of f over the set S
SumOver(f, S) ==
    IF S = {} THEN 0
    ELSE LET x == CHOOSE y \in S : TRUE IN f[x] + SumOver(f, S \ {x})

\* the keys of the <type>-deleted counters
DeletedKeys == CounterKeys \ {ResourcesProcessed}

\* C31: every mutation of the counter map (resources-processed and every
\* <type>-deleted increment) is made by a worker that holds counterMutex while
\* no other worker is inside a decision, and the summary reads the map with the
\* mutex free for it: no two workers mutate the map at once, and the summary
\* shows every increment made (resources-processed counts every call of
\* handleResource that passed the filter).
C31_CountersUnderMutex ==
    [][/\ counter' # counter =>
             \E w \in Workers :
                 /\ wpc'[w] # wpc[w]
                 /\ counterMutex = w \/ counterMutex' = w
                 /\ counterMutex \in {0, w}
                 /\ \A v \in Workers \ {w} : ~InDecision(v)
       /\ (summary'.emitted /\ ~summary.emitted) =>
             /\ counterMutex = 0
             /\ summary'.stats = counter
             /\ counter[ResourcesProcessed] = SumOver(processed, Identities)]_vars

\* two workers, two objects deleted through their TTL annotations and counted,
\* the summary read
C31_Witness ==
    /\ cfg.Parallelism = 2
    /\ summary.emitted
    /\ summary.stats[DeletedKey(KindPod)] = 2
    /\ summary.stats[ResourcesProcessed] >= 2

\* C32: at the end of a non-dry-run run the <type>-deleted counters add up to
\* the number of delete calls that returned success, and resources-processed is
\* the number of distinct identities that passed the resource filter.
C32_CountersMatchRun ==
    (summary.emitted /\ ~cfg.DryRun) =>
        /\ (\A id \in Identities : handled[id] <= 1) =>
              SumOver(summary.stats, DeletedKeys) = Cardinality(deleted)
        /\ summary.stats[ResourcesProcessed]
              = Cardinality({id \in Identities : processed[id] > 0})

\* the deployment time as specified: the configured annotation's value when it
\* is configured, present and parseable, the creation instant in every other case
SpecifiedDeploymentTime ==
    IF /\ cfg.DeploymentTimeAnnotation # ""
       /\ HasAnnotation(dRes, cfg.DeploymentTimeAnnotation)
       /\ dRes.ann.deploy.fmt = "rfc3339"
    THEN dRes.ann.deploy.t
    ELSE dRes.created

\* C33: in the TTL-annotation path and in the rule path expiresAt is
\* deploymentTime + ttl, deploymentTime being the value of the configured
\* deployment-time annotation when it is configured, present and parseable, and
\* the creation instant otherwise: the branch treats the object as expired
\* exactly when now is later than that instant.
C33_ExpiresAtFromDeploymentTime ==
    (Decided /\ Acted /\ ~ActedTTL.err /\ ActedTTL.d >= 0) =>
        /\ ActedExpiresAt = SpecifiedDeploymentTime + ActedTTL.d
        /\ (\E i \in TTLBranchCalls("createEvent") :
               dOut.trace[i].reason # "DeleteNotification")
              <=> (now > SpecifiedDeploymentTime + ActedTTL.d)

\* a notification of the pass went out: its event was created by the client
Notified ==
    \E i \in 1..Len(dOut.trace) :
        /\ dOut.trace[i].call = "createEvent"
        /\ dOut.trace[i].reason = "DeleteNotification"
        /\ dOut.trace[i].api /\ dOut.trace[i].ok

LifecycleEvents(branch) ==
    {i \in 1..Len(dOut.trace) :
        /\ dOut.trace[i].call = "createEvent"
        /\ dOut.trace[i].branch = branch
        /\ dOut.trace[i].reason # "DeleteNotification"}

DeleteCalls(branch) ==
    {i \in 1..Len(dOut.trace) :
        dOut.trace[i].call = "deleteResource" /\ dOut.trace[i].branch = branch}

\* C35: in every expiry path (TTL annotation, rule, absolute expiry) the
\* lifecycle event is created before the delete call is issued; when the event
\* cannot be created the path issues no delete for the object in that pass and
\* returns an error.
C35_EventBeforeDelete ==
    Decided =>
        \A branch \in {"ttl", "rule", "expiry"} :
            /\ \A d \in DeleteCalls(branch) :
                  \E e \in LifecycleEvents(branch) : e < d /\ dOut.trace[e].ok
            /\ (\E e \in LifecycleEvents(branch) : ~dOut.trace[e].ok) =>
                  (DeleteCalls(branch) = {} /\ dOut.err)

\* a pass in which the client refused the event of an expired object
C35_Witness ==
    /\ Decided /\ ~cfg.DryRun
    /\ \E branch \in {"ttl", "rule", "expiry"} :
          /\ \E e \in LifecycleEvents(branch) : ~dOut.trace[e].ok
          /\ DeleteCalls(branch) = {}
    /\ dOut.err

\* the collection the object of the decision was listed from: the Plural of its
\* resource type; a Namespace of the namespace pass comes from
\* CoreV1().Namespaces()
ListedFrom ==
    IF dRes.kind = KindNamespace THEN NamespacesV1.Plural ELSE PodsV1.Plural

\* C36: every delete request issued for an object is addressed to the
\* collection the object was listed from, for Namespace objects of the
\* namespace pass as for the objects of a resource type.
C36_DeleteAddressesListedCollection ==
    Decided =>
        \A i \in 1..Len(dOut.trace) :
            (dOut.trace[i].call = "deleteResource" /\ dOut.trace[i].api)
                => dOut.trace[i].reason = ListedFrom

\* the integer and the unit of a TTL, multiplied without any limit of width:
\* sixteen bytes hold every product of two int64
ExactProduct(ttl) ==
    MulFrom(ToBytes(Atoi(SubSeq(ttl, 1, Len(ttl) - 1)), 8), TimeUnit64[ttl[Len(ttl)]],
            1, 0, 16)

\* C37: for every TTL <integer><unit> that ParseTTL accepts the duration
\* returned is non-negative and is the integer times the unit, so that no
\* finite TTL is taken for the unlimited (negative) sentinel.
C37_FiniteTTLNonNegative ==
    (Called("ParseTTL64") /\ arg # TTLUnlimited /\ ~ret.err) =>
        /\ ~Negative64(ret.d)
        /\ ret.d \o ToBytes(0, 8) = ExactProduct(arg)

\* C38: in periodic mode (Once = false), after a termination signal was
\* received the process eventually stops: the run context is cancelled, the
\* main loop returns and the process exits.
C38_PeriodicStopsAfterSignal ==
    (~cfg.Once /\ gs.shutdownNow) ~> Exited

\* C39: for every interleaving of the goroutine of handleSignals and calls of
\* SetSafeToExit (any number of calls, with true or false, before or after
\* the signal) the done channel is closed at most once: no close finds it
\* closed.
C39_DoneClosedOnce ==
    sigpc # "panic" /\ mainpc # "panic"

\* C1: within one run every object identity (kind, namespace, name) is passed to
\* handleResource at most once and counted in resources-processed at most once,
\* across the namespace pass and every resource-type pass.
C1_HandledAtMostOnce ==
    \A id \in Identities : handled[id] <= 1 /\ processed[id] <= 1

\* C2: every run of CleanUp terminates: as long as CleanUp has not returned, some
\* step of the run (a worker's or the coordinator's) can be taken, whatever the
\* objects (also those expired through a rule or a past-due expiry annotation).
C2_RunTerminates == Returned \/ ENABLED Next
=============================================================================
